---- MODULE Spec2Model ----
(***************************************************************************)
(* Model of straubt1/terraform-run-task: the result builder                *)
(* (api.TaskResponse), the callback builder (handler.CallbackBuilder) and  *)
(* the inbound request handler (runtask.handleTFCRequestWrapper).          *)
(*                                                                         *)
(* Strings whose content the code inspects (URLs) are sequences of         *)
(* one-character strings, so that strings.HasPrefix is computed.  Strings  *)
(* the code only stores and compares are TLA+ strings.                     *)
(***************************************************************************)
EXTENDS Integers, Sequences, FiniteSets, TLC

\* ------------------------------------------------------------------------
\* Bounds
\* ------------------------------------------------------------------------

\* Largest number of AddOutcome calls made on one TaskResponse.
MaxOutcomes == 3

\* Requests the server handles at the same time, one goroutine each.
MaxRequests == 2

\* ------------------------------------------------------------------------
\* api: constants of task_request.go
\* ------------------------------------------------------------------------

TaskFailed == "failed"
TaskPassed == "passed"
TaskRunning == "running"

TagLevelNone == "none"
TagLevelInfo == "info"
TagLevelWarning == "warning"
TagLevelError == "error"

TypeTaskResults == "task-results"
TypeTaskResultOutcomes == "task-result-outcomes"

\* The literals of the scheme gate in WithUrl.
HttpPrefix == <<"h", "t", "t", "p", ":", "/", "/">>
HttpsPrefix == <<"h", "t", "t", "p", "s", ":", "/", "/">>

\* strings.HasPrefix(s, prefix): len(s) >= len(prefix) && s[:len(prefix)] == prefix
HasPrefix(s, prefix) ==
    /\ Len(s) >= Len(prefix)
    /\ SubSeq(s, 1, Len(prefix)) = prefix

\* ------------------------------------------------------------------------
\* Inputs the operations are called with
\* ------------------------------------------------------------------------

UrlEmpty == <<>>
UrlHttp == <<"h", "t", "t", "p", ":", "/", "/", "x">>
UrlHttps == <<"h", "t", "t", "p", "s", ":", "/", "/", "x">>
UrlFtp == <<"f", "t", "p", ":", "/", "/", "x">>
UrlBare == <<"x", ".", "c", "o", "m">>
UrlUpper == <<"H", "T", "T", "P", ":", "/", "/", "x">>

\* Arguments of WithUrl: two accepted, four rejected.
UrlInputs == {UrlEmpty, UrlHttp, UrlHttps, UrlFtp, UrlBare, UrlUpper}

\* Arguments of SetResult.
StatusInputs == {TaskFailed, TaskPassed, TaskRunning}
MessageInputs == {"", "All good"}

\* Arguments of AddOutcome: every tag level, empty and non-empty strings,
\* urls with and without an approved scheme.
OutcomeInputs ==
    { [outcomeId |-> "o1", description |-> "desc1", body |-> "body1",
       url |-> UrlHttps, label |-> "OK", level |-> TagLevelInfo],
      [outcomeId |-> "o2", description |-> "", body |-> "",
       url |-> UrlEmpty, label |-> "WARN", level |-> TagLevelWarning],
      [outcomeId |-> "o3", description |-> "d", body |-> "",
       url |-> UrlFtp, label |-> "err", level |-> TagLevelError],
      [outcomeId |-> "", description |-> "", body |-> "b",
       url |-> UrlBare, label |-> "", level |-> TagLevelNone] }

\* ------------------------------------------------------------------------
\* State
\* ------------------------------------------------------------------------

VARIABLES
    heap,     \* address -> TaskResponse: the objects NewTaskResponse allocated
    base,     \* the pointer NewTaskResponse returned
    r,        \* the pointer the latest builder call returned (chain handle)
    cb,       \* the CallbackBuilder's api.TaskResponse (cb.resp)
    last,     \* the latest call: its name, arguments and return value
    addLog,   \* arguments of the AddOutcome calls made so far, in call order
    lastSet,  \* arguments of the latest SetResult call, if there was one
    panicked, \* a builder call dereferenced a nil pointer
    config,   \* task.config, set by Configure before the server starts
    pc,       \* position of the request handler in handleTFCRequestWrapper
    httpReq,  \* the inbound *http.Request: its body and signature header
    reqBody,  \* the bytes io.ReadAll returned
    runTaskReq,   \* the request json.Unmarshal decoded
    stageError,   \* the error the stage routine returned
    httpStatus,   \* the status code written to the ResponseWriter, 0 if none
    verifyCalls,  \* VerifyHMAC calls made for this request, with their results
    stageCalls,   \* stage routines run for this request, in call order
    callbacks,    \* callback requests sent to the platform for this request
    sigChecks,    \* evaluations of the signature policy for this request
    mkdirs,       \* CreateRunTaskDirectoryStructure calls, TRUE when it failed
    steps,        \* data-collection steps attempted, with their errors
    stageResponse, \* the pointer the stage routine returned
    stageRequest,  \* the stage routine's own copy of the request
    runTaskPath,   \* the path CreateRunTaskDirectoryStructure returned
    goroutines,    \* stage routines running concurrently, by request
    stageTrace,    \* the builder calls the stage routine made, in call order
    files,         \* the file system: what there is at each path
    token,         \* the environment variable TERRAFORM_API_TOKEN
    httpGets,      \* the URLs of the requests the HTTP client has sent
    returned       \* the helper calls made so far, with what they returned

builderVars == <<heap, base, r, cb, last, addLog, lastSet, panicked>>
helperVars == <<files, token, httpGets, returned>>
stageVars == <<mkdirs, steps, stageResponse, stageRequest, runTaskPath,
               goroutines, stageTrace, helperVars>>
handlerVars == <<config, pc, httpReq, reqBody, runTaskReq, stageError,
                 httpStatus, verifyCalls, stageCalls, callbacks, sigChecks,
                 stageVars>>
vars == <<builderVars, handlerVars>>

\* ------------------------------------------------------------------------
\* Go values
\* ------------------------------------------------------------------------

\* A slice is nil or holds elements; append to either gives a non-nil slice.
NilSlice == [nil |-> TRUE, elems |-> <<>>]
EmptySlice == [nil |-> FALSE, elems |-> <<>>]
GoAppend(s, x) == [nil |-> FALSE, elems |-> Append(s.elems, x)]

\* The nil pointer; objects live at addresses 1, 2, ...
NilPtr == 0
NewAddr(h) == Cardinality(DOMAIN h) + 1

\* *ResponseRelationships: a nil pointer or a struct.
NilRelationships == [nil |-> TRUE, Outcomes |-> [Data |-> NilSlice]]

\* ------------------------------------------------------------------------
\* api.TaskResponse (task_request.go)
\* ------------------------------------------------------------------------

\* NewTaskResponse without the Data: []ResponseOutcome{} initialiser.
NewTaskResponseNilData ==
    [Data |->
        [Type |-> TypeTaskResults,
         Attributes |-> [Message |-> "", Status |-> "", URL |-> UrlEmpty],
         Relationships |->
            [nil |-> FALSE, Outcomes |-> [Data |-> NilSlice]]]]

\* func NewTaskResponse() *TaskResponse: the struct it allocates.
NewTaskResponse ==
    [Data |->
        [Type |-> TypeTaskResults,
         Attributes |-> [Message |-> "", Status |-> "", URL |-> UrlEmpty],
         Relationships |->
            [nil |-> FALSE, Outcomes |-> [Data |-> EmptySlice]]]]

\* AddOutcome assigning []ResponseOutcome{outcome} instead of appending.
AddOutcomeReplace(h, p, outcomeId, description, body, url, label, level) ==
    LET outcome ==
            [Type |-> TypeTaskResultOutcomes,
             Attributes |->
                [OutcomeID |-> outcomeId,
                 Description |-> description,
                 Body |-> body,
                 URL |-> url,
                 Tags |-> [Status |-> <<[Label |-> label, Level |-> level]>>]]]
    IN  IF h[p].Data.Relationships.nil
        THEN [heap |-> h, ret |-> NilPtr, panic |-> TRUE]
        ELSE [heap |-> [h EXCEPT ![p].Data.Relationships.Outcomes.Data =
                                    [nil |-> FALSE, elems |-> <<outcome>>]],
              ret |-> p, panic |-> FALSE]

\* AddOutcome putting the new outcome in front of the earlier ones.
AddOutcomePrepend(h, p, outcomeId, description, body, url, label, level) ==
    LET outcome ==
            [Type |-> TypeTaskResultOutcomes,
             Attributes |->
                [OutcomeID |-> outcomeId,
                 Description |-> description,
                 Body |-> body,
                 URL |-> url,
                 Tags |-> [Status |-> <<[Label |-> label, Level |-> level]>>]]]
        data == h[p].Data.Relationships.Outcomes.Data
    IN  IF h[p].Data.Relationships.nil
        THEN [heap |-> h, ret |-> NilPtr, panic |-> TRUE]
        ELSE [heap |-> [h EXCEPT ![p].Data.Relationships.Outcomes.Data =
                                    [nil |-> FALSE,
                                     elems |-> <<outcome>> \o data.elems]],
              ret |-> p, panic |-> FALSE]

\* AddOutcome applying the scheme gate of WithUrl to the outcome url.
AddOutcomeGated(h, p, outcomeId, description, body, url, label, level) ==
    LET outcome ==
            [Type |-> TypeTaskResultOutcomes,
             Attributes |->
                [OutcomeID |-> outcomeId,
                 Description |-> description,
                 Body |-> body,
                 URL |-> IF HasPrefix(url, HttpPrefix)
                            \/ HasPrefix(url, HttpsPrefix)
                         THEN url ELSE UrlEmpty,
                 Tags |-> [Status |-> <<[Label |-> label, Level |-> level]>>]]]
        data == h[p].Data.Relationships.Outcomes.Data
    IN  IF h[p].Data.Relationships.nil
        THEN [heap |-> h, ret |-> NilPtr, panic |-> TRUE]
        ELSE [heap |-> [h EXCEPT ![p].Data.Relationships.Outcomes.Data =
                                    GoAppend(data, outcome)],
              ret |-> p, panic |-> FALSE]

\* AddOutcome leaving the tag out when the level is none.
AddOutcomeNoTagWhenNone(h, p, outcomeId, description, body, url, label, level) ==
    LET outcome ==
            [Type |-> TypeTaskResultOutcomes,
             Attributes |->
                [OutcomeID |-> outcomeId,
                 Description |-> description,
                 Body |-> body,
                 URL |-> url,
                 Tags |-> [Status |->
                             IF level = TagLevelNone
                             THEN <<>>
                             ELSE <<[Label |-> label, Level |-> level]>>]]]
        data == h[p].Data.Relationships.Outcomes.Data
    IN  IF h[p].Data.Relationships.nil
        THEN [heap |-> h, ret |-> NilPtr, panic |-> TRUE]
        ELSE [heap |-> [h EXCEPT ![p].Data.Relationships.Outcomes.Data =
                                    GoAppend(data, outcome)],
              ret |-> p, panic |-> FALSE]

\* func (r *TaskResponse) AddOutcome(...) *TaskResponse, on the object at p.
\* r.Data.Relationships is dereferenced: a nil Relationships panics.
AddOutcome(h, p, outcomeId, description, body, url, label, level) ==
    LET outcome ==
            [Type |-> TypeTaskResultOutcomes,
             Attributes |->
                [OutcomeID |-> outcomeId,
                 Description |-> description,
                 Body |-> body,
                 URL |-> url,
                 Tags |-> [Status |-> <<[Label |-> label, Level |-> level]>>]]]
        data == h[p].Data.Relationships.Outcomes.Data
    IN  IF h[p].Data.Relationships.nil
        THEN [heap |-> h, ret |-> NilPtr, panic |-> TRUE]
        ELSE [heap |-> [h EXCEPT ![p].Data.Relationships.Outcomes.Data =
                                    GoAppend(data, outcome)],
              ret |-> p, panic |-> FALSE]

\* SetResult with a value receiver: it updates and returns a copy.
SetResultCopy(h, p, status, message) ==
    LET q == NewAddr(h)
    IN  [heap |-> h @@ (q :> [h[p] EXCEPT !.Data.Attributes.Status = status,
                                          !.Data.Attributes.Message = message]),
         ret |-> q, panic |-> FALSE]

\* SetResult that keeps the earlier message when given an empty one.
SetResultKeepMessage(h, p, status, message) ==
    [heap |-> [h EXCEPT ![p].Data.Attributes.Status = status,
                        ![p].Data.Attributes.Message =
                            IF message = "" THEN @ ELSE message],
     ret |-> p, panic |-> FALSE]

\* SetResult starting the outcome list afresh.
SetResultDropOutcomes(h, p, status, message) ==
    [heap |-> [h EXCEPT ![p].Data.Attributes.Status = status,
                        ![p].Data.Attributes.Message = message,
                        ![p].Data.Relationships.Outcomes.Data = EmptySlice],
     ret |-> p, panic |-> FALSE]

\* func (r *TaskResponse) SetResult(status, message) *TaskResponse
SetResult(h, p, status, message) ==
    [heap |-> [h EXCEPT ![p].Data.Attributes.Status = status,
                        ![p].Data.Attributes.Message = message],
     ret |-> p, panic |-> FALSE]

\* WithUrl without the scheme gate.
WithUrlNoGate(h, p, url) ==
    [heap |-> [h EXCEPT ![p].Data.Attributes.URL = url],
     ret |-> p, panic |-> FALSE]

\* WithUrl that resets the URL when the argument fails the gate.
WithUrlClear(h, p, url) ==
    IF HasPrefix(url, HttpPrefix) \/ HasPrefix(url, HttpsPrefix)
    THEN [heap |-> [h EXCEPT ![p].Data.Attributes.URL = url],
          ret |-> p, panic |-> FALSE]
    ELSE [heap |-> [h EXCEPT ![p].Data.Attributes.URL = UrlEmpty],
          ret |-> p, panic |-> FALSE]

\* WithUrl accepting every url that is not empty.
WithUrlNonEmpty(h, p, url) ==
    IF url # UrlEmpty
    THEN [heap |-> [h EXCEPT ![p].Data.Attributes.URL = url],
          ret |-> p, panic |-> FALSE]
    ELSE [heap |-> h, ret |-> p, panic |-> FALSE]

\* func (r *TaskResponse) WithUrl(url) *TaskResponse
WithUrl(h, p, url) ==
    IF HasPrefix(url, HttpPrefix) \/ HasPrefix(url, HttpsPrefix)
    THEN [heap |-> [h EXCEPT ![p].Data.Attributes.URL = url],
          ret |-> p, panic |-> FALSE]
    ELSE [heap |-> h, ret |-> p, panic |-> FALSE]

\* IsPassed returning true right after the first outcome's tags.
IsPassedFirstOnly(resp) ==
    LET data == resp.Data.Relationships.Outcomes.Data.elems
    IN  \A i \in 1..Len(data) :
            i = 1 =>
                \A j \in 1..Len(data[i].Attributes.Tags.Status) :
                    data[i].Attributes.Tags.Status[j].Level # TagLevelError

\* func (r *TaskResponse) IsPassed() bool: false at the first error tag.
IsPassed(resp) ==
    LET data == resp.Data.Relationships.Outcomes.Data.elems
    IN  \A i \in 1..Len(data) :
            \A j \in 1..Len(data[i].Attributes.Tags.Status) :
                data[i].Attributes.Tags.Status[j].Level # TagLevelError

\* ------------------------------------------------------------------------
\* encoding/json over the struct tags of task_request.go.  A JSON object is
\* a function from the keys that are emitted to their values; a JSON array
\* is [null, items], null for a nil slice.
\* ------------------------------------------------------------------------

\* A field tagged omitempty is emitted only when its value is not empty.
Field(key, value) == (key :> value)
OmitEmpty(key, value, empty) == IF empty THEN <<>> ELSE (key :> value)

\* type Tag struct
MarshalTag(t) == Field("label", t.Label) @@ Field("level", t.Level)

\* type Tags struct: status is omitted when the slice has no element.
MarshalTags(t) ==
    OmitEmpty("status", [i \in 1..Len(t.Status) |-> MarshalTag(t.Status[i])],
              Len(t.Status) = 0)

\* type ResponseOutcomeAttributes struct; omitempty does not omit a struct.
MarshalOutcomeAttributes(a) ==
    Field("outcome-id", a.OutcomeID)
        @@ OmitEmpty("description", a.Description, a.Description = "")
        @@ Field("tags", MarshalTags(a.Tags))
        @@ OmitEmpty("body", a.Body, a.Body = "")
        @@ OmitEmpty("url", a.URL, a.URL = UrlEmpty)

\* type ResponseOutcome struct
MarshalOutcome(o) ==
    Field("type", o.Type)
        @@ Field("attributes", MarshalOutcomeAttributes(o.Attributes))

\* type ResponseOutcomes struct: a nil slice is null, others an array.
MarshalOutcomes(o) ==
    Field("data",
          [null |-> o.Data.nil,
           items |-> [i \in 1..Len(o.Data.elems) |->
                          MarshalOutcome(o.Data.elems[i])]])

\* type ResponseRelationships struct
MarshalRelationships(rel) == Field("outcomes", MarshalOutcomes(rel.Outcomes))

\* type ResponseAttributes struct
MarshalAttributes(a) ==
    OmitEmpty("message", a.Message, a.Message = "")
        @@ Field("status", a.Status)
        @@ OmitEmpty("url", a.URL, a.URL = UrlEmpty)

\* MarshalData leaving relationships out when the outcome list is empty.
MarshalDataOmitNoOutcomes(d) ==
    Field("type", d.Type)
        @@ Field("attributes", MarshalAttributes(d.Attributes))
        @@ OmitEmpty("relationships", MarshalRelationships(d.Relationships),
                     d.Relationships.nil
                        \/ Len(d.Relationships.Outcomes.Data.elems) = 0)

\* type ResponseData struct: a nil Relationships pointer is omitted.
MarshalData(d) ==
    Field("type", d.Type)
        @@ Field("attributes", MarshalAttributes(d.Attributes))
        @@ OmitEmpty("relationships", MarshalRelationships(d.Relationships),
                     d.Relationships.nil)

\* json.Marshal of a TaskResponse
MarshalTaskResponse(resp) == Field("data", MarshalData(resp.Data))

\* ------------------------------------------------------------------------
\* handler.CallbackBuilder (callback_builder.go)
\* ------------------------------------------------------------------------

\* func NewCallbackBuilder(status) *CallbackBuilder: the resp it wraps.
NewCallbackBuilder(status) ==
    [Data |->
        [Type |-> TypeTaskResults,
         Attributes |-> [Message |-> "", Status |-> status, URL |-> UrlEmpty],
         Relationships |-> NilRelationships]]

\* func (cb *CallbackBuilder) WithUrl(url) *CallbackBuilder: the resp after.
CallbackBuilderWithUrl(resp, url) ==
    IF ~HasPrefix(url, HttpPrefix) /\ ~HasPrefix(url, HttpsPrefix)
    THEN resp
    ELSE [resp EXCEPT !.Data.Attributes.URL = url]

\* ------------------------------------------------------------------------
\* The builder as a state machine: a caller holding base makes chained
\* calls, each on the pointer the previous call returned.
\* ------------------------------------------------------------------------

NoCall == [called |-> FALSE, status |-> "", message |-> ""]

BuilderInit ==
    /\ heap = (1 :> NewTaskResponse)
    /\ base = 1
    /\ r = 1
    /\ cb \in {NewCallbackBuilder(s) : s \in {TaskRunning}}
    /\ last = [op |-> "NewTaskResponse", args |-> <<>>, ret |-> 1, passed |-> TRUE]
    /\ addLog = <<>>
    /\ lastSet = NoCall
    /\ panicked = FALSE

\* r = r.AddOutcome(a.outcomeId, ..., a.level)
CallAddOutcome(a) ==
    LET res == AddOutcome(heap, r, a.outcomeId, a.description, a.body,
                          a.url, a.label, a.level)
    IN  /\ Len(addLog) < MaxOutcomes
        /\ ~panicked
        /\ heap' = res.heap
        /\ r' = IF res.panic THEN r ELSE res.ret
        /\ panicked' = res.panic
        /\ last' = [op |-> "AddOutcome", args |-> a, ret |-> res.ret, passed |-> TRUE]
        /\ addLog' = Append(addLog, a)
        /\ UNCHANGED <<base, cb, lastSet, handlerVars>>

\* r = r.SetResult(status, message)
CallSetResult(status, message) ==
    LET res == SetResult(heap, r, status, message)
    IN  /\ ~panicked
        /\ heap' = res.heap
        /\ r' = res.ret
        /\ last' = [op |-> "SetResult",
                    args |-> [status |-> status, message |-> message],
                    ret |-> res.ret, passed |-> TRUE]
        /\ lastSet' = [called |-> TRUE, status |-> status, message |-> message]
        /\ UNCHANGED <<base, cb, addLog, panicked, handlerVars>>

\* r = r.WithUrl(url)
CallWithUrl(url) ==
    LET res == WithUrl(heap, r, url)
    IN  /\ ~panicked
        /\ heap' = res.heap
        /\ r' = res.ret
        /\ last' = [op |-> "WithUrl", args |-> [url |-> url],
                    ret |-> res.ret, passed |-> TRUE]
        /\ UNCHANGED <<base, cb, addLog, lastSet, panicked, handlerVars>>

\* r.IsPassed()
CallIsPassed ==
    /\ ~panicked
    /\ last' = [op |-> "IsPassed", args |-> <<>>, ret |-> r,
                passed |-> IsPassed(heap[r])]
    /\ UNCHANGED <<heap, base, r, cb, addLog, lastSet, panicked, handlerVars>>

\* cb.WithUrl(url)
CallCallbackBuilderWithUrl(url) ==
    /\ ~panicked
    /\ cb' = CallbackBuilderWithUrl(cb, url)
    /\ last' = [op |-> "CallbackBuilder.WithUrl", args |-> [url |-> url],
                ret |-> r, passed |-> TRUE]
    /\ UNCHANGED <<heap, base, r, addLog, lastSet, panicked, handlerVars>>

Next ==
    \/ \E a \in OutcomeInputs : CallAddOutcome(a)
    \/ \E s \in StatusInputs, m \in MessageInputs : CallSetResult(s, m)
    \/ \E u \in UrlInputs : CallWithUrl(u)
    \/ CallIsPassed
    \/ \E u \in UrlInputs : CallCallbackBuilderWithUrl(u)

\* ------------------------------------------------------------------------
\* handler.VerifyHMAC (hmac.go).  HMAC-SHA512 is a symbolic term over its
\* key and message: two terms are equal exactly when keys and messages are.
\* ------------------------------------------------------------------------

\* mac := hmac.New(sha512.New, key); mac.Write(body); mac.Sum(nil)
HmacSha512(key, body) == <<"hmac-sha512", key, body>>

\* hex.EncodeToString
HexEncodeToString(mac) == <<"hex">> \o mac

\* VerifyHMAC comparing the signed body and not the key it was signed with.
VerifyHMACIgnoreKey(requestBody, requestSignature, key) ==
    [verified |->
        /\ Len(requestSignature) = 4
        /\ requestSignature[4] = requestBody,
     err |-> FALSE]

\* Write on a hash never returns an error, so err is always nil.
VerifyHMAC(requestBody, requestSignature, key) ==
    [verified |->
        requestSignature = HexEncodeToString(HmacSha512(key, requestBody)),
     err |-> FALSE]

\* ------------------------------------------------------------------------
\* api.TaskRequest (task_request.go)
\* ------------------------------------------------------------------------

verificationToken == "test-token"

PrePlan == "pre_plan"
PostPlan == "post_plan"
PreApply == "pre_apply"
PostApply == "post_apply"

\* IsEndpointValidation taking the empty token for the verification token.
IsEndpointValidationEmptyToken(request) == request.AccessToken = ""

\* func (r TaskRequest) IsEndpointValidation() bool
IsEndpointValidation(request) == request.AccessToken = verificationToken

\* A path is a sequence of segments and a segment a sequence of pieces of
\* text; "" is the path without segments.  Names hold no separator.
NoPath == <<>>
Dot == <<".">>
DotDot == <<"..">>
Segment(name) == IF name = "" THEN <<>> ELSE <<name>>

\* var runTaskReq api.TaskRequest: the zero value.
ZeroTaskRequest ==
    [AccessToken |-> "", Stage |-> "", RunID |-> "", WorkspaceName |-> "",
     TaskDirectory |-> NoPath]

\* filepath.Clean over the segments from the i-th on, acc being the cleaned
\* path so far: empty and "." segments go, ".." takes the segment before it
\* away when there is one to take, and the empty result is ".".
RECURSIVE CleanFrom(_, _, _)
CleanFrom(segs, i, acc) ==
    IF i > Len(segs)
    THEN IF acc = <<>> THEN <<Dot>> ELSE acc
    ELSE IF segs[i] = <<>> \/ segs[i] = Dot
    THEN CleanFrom(segs, i + 1, acc)
    ELSE IF segs[i] = DotDot /\ acc # <<>> /\ acc[Len(acc)] # DotDot
    THEN CleanFrom(segs, i + 1, SubSeq(acc, 1, Len(acc) - 1))
    ELSE CleanFrom(segs, i + 1, Append(acc, segs[i]))

\* filepath.Join: the non-empty elements joined by separators, then Clean.
Join(elems) == CleanFrom(elems, 1, <<>>)

\* The switch on r.Stage: the stage name behind its number.
StageFolder(stage) ==
    CASE stage = PrePlan -> <<"1_", stage>>
      [] stage = PostPlan -> <<"2_", stage>>
      [] stage = PreApply -> <<"3_", stage>>
      [] stage = PostApply -> <<"4_", stage>>
      [] OTHER -> Segment(stage)

\* CreateRunTaskDirectoryStructure recording the directory once it exists.
CreateRunTaskDirectoryStructureSetOnSuccess(req, mkdirFails) ==
    LET path == Join(<<Dot, Segment(req.WorkspaceName), Segment(req.RunID),
                       StageFolder(req.Stage)>>)
    IN  [req |-> IF mkdirFails THEN req
                 ELSE [req EXCEPT !.TaskDirectory = path],
         path |-> path,
         err |-> mkdirFails]

\* func (r *TaskRequest) CreateRunTaskDirectoryStructure() (string, error);
\* os.MkdirAll may fail.
CreateRunTaskDirectoryStructure(req, mkdirFails) ==
    LET path == Join(<<Dot, Segment(req.WorkspaceName), Segment(req.RunID),
                       StageFolder(req.Stage)>>)
    IN  [req |-> [req EXCEPT !.TaskDirectory = path],
         path |-> path,
         err |-> mkdirFails]

\* ------------------------------------------------------------------------
\* Inbound requests
\* ------------------------------------------------------------------------

StatusOK == 200
StatusBadRequest == 400
StatusUnauthorized == 401
StatusNotFound == 404
StatusInternalServerError == 500

\* Request bodies: one that is not JSON, and JSON documents with either
\* access token and each stage, a stage the handler does not know included.
NotJson ==
    [json |-> FALSE, AccessToken |-> "", Stage |-> "", RunID |-> "",
     WorkspaceName |-> ""]
BodyInputs ==
    {NotJson} \cup
    { [json |-> TRUE, AccessToken |-> t, Stage |-> st, RunID |-> "run-1",
       WorkspaceName |-> "ws-1"] :
        t \in {verificationToken, "tfc-token"},
        st \in {PrePlan, PostPlan, PreApply, PostApply, "post_run"} }

\* Values of the shared secret given to Configure; "" is not configured.
HmacKeyInputs == {"", "secret"}

\* Values of the X-Tfc-Task-Signature header: absent (Header.Get gives ""),
\* or the hex HMAC of some body under some key.
NoSignature == <<>>
SignatureInputs ==
    {NoSignature} \cup
    { HexEncodeToString(HmacSha512(k, b)) :
        k \in {"", "secret", "wrong"}, b \in BodyInputs }

\* json.Unmarshal(reqBody, &runTaskReq)
Unmarshal(body) ==
    IF body.json
    THEN [err |-> FALSE,
          req |-> [AccessToken |-> body.AccessToken, Stage |-> body.Stage,
                   RunID |-> body.RunID, WorkspaceName |-> body.WorkspaceName,
                   TaskDirectory |-> NoPath]]
    ELSE [err |-> TRUE, req |-> ZeroTaskRequest]

NoRequest == [body |-> NotJson, signature |-> NoSignature]

\* ------------------------------------------------------------------------
\* The stage routines of ScaffoldingRunTask (run_task_stages.go)
\* ------------------------------------------------------------------------

\* fmt.Sprintf("https://example.com/task/%s", request.RunID)
ReferenceURL(request) ==
    HttpsPrefix \o <<"example.com/task/", request.RunID>>

\* err.Error() of a failed directory creation and of a failed step.
MkdirError == "mkdir failed"
StepError == "step failed"

\* The data-collection steps of each stage routine in program order: the
\* outcome id and the descriptions used when the step succeeds or fails.
StageSteps(stage) ==
    CASE stage = PrePlan ->
            << [id |-> "save-request",
                ok |-> "Request saved to file successfully",
                failed |-> "Failed to save request to file"],
               [id |-> "download-run",
                ok |-> "Run data downloaded successfully",
                failed |-> "Failed to download run from API"],
               [id |-> "download-configuration-version",
                ok |-> "Configuration version downloaded successfully",
                failed |-> "Failed to download configuration version"] >>
      [] stage = PostPlan ->
            << [id |-> "download-configuration-version",
                ok |-> "Configuration version downloaded successfully",
                failed |-> "Failed to download configuration version"],
               [id |-> "save-request",
                ok |-> "Request saved to file successfully",
                failed |-> "Failed to save request to file"],
               [id |-> "download-run",
                ok |-> "Run data downloaded successfully",
                failed |-> "Failed to download run from API"],
               [id |-> "download-plan-json",
                ok |-> "Plan JSON downloaded successfully",
                failed |-> "Failed to download plan JSON file"],
               [id |-> "download-plan",
                ok |-> "Plan data downloaded successfully",
                failed |-> "Failed to download plan file"],
               [id |-> "download-plan-logs",
                ok |-> "Plan logs downloaded successfully",
                failed |-> "Failed to get plan logs"] >>
      [] stage = PreApply ->
            << [id |-> "save-request",
                ok |-> "Request saved to file successfully",
                failed |-> "Failed to save request to file"],
               [id |-> "download-run",
                ok |-> "Run data downloaded successfully",
                failed |-> "Failed to download run from API"],
               [id |-> "download-policy-checks",
                ok |-> "Policy checks downloaded successfully",
                failed |-> "Failed to download policy checks from API"],
               [id |-> "download-comments",
                ok |-> "Comments downloaded successfully",
                failed |-> "Failed to download comments from API"],
               [id |-> "download-task-stages",
                ok |-> "Task stages downloaded successfully",
                failed |-> "Failed to download task stages from API"],
               [id |-> "download-run-events",
                ok |-> "Run events downloaded successfully",
                failed |-> "Failed to download run events from API"] >>
      [] stage = PostApply ->
            << [id |-> "save-request",
                ok |-> "Request saved to file successfully",
                failed |-> "Failed to save request to file"],
               [id |-> "download-run",
                ok |-> "Run data downloaded successfully",
                failed |-> "Failed to download run from API"],
               [id |-> "download-apply",
                ok |-> "Apply data downloaded successfully",
                failed |-> "Failed to download apply from API"],
               [id |-> "download-apply-logs",
                ok |-> "Apply logs downloaded successfully",
                failed |-> "Failed to get apply logs"],
               [id |-> "download-policy-checks",
                ok |-> "Policy checks downloaded successfully",
                failed |-> "Failed to download policy checks from API"],
               [id |-> "download-comments",
                ok |-> "Comments downloaded successfully",
                failed |-> "Failed to download comments from API"],
               [id |-> "download-task-stages",
                ok |-> "Task stages downloaded successfully",
                failed |-> "Failed to download task stages from API"],
               [id |-> "download-run-events",
                ok |-> "Run events downloaded successfully",
                failed |-> "Failed to download run events from API"] >>

\* The messages each stage routine gives SetResult: when the directory
\* could not be created ("... Stage Failed: " + err.Error()), and after the
\* steps when the result passed or failed.
StageMessages(stage) ==
    CASE stage = PrePlan ->
            [mkdirFailed |-> "Pre-Plan Stage Failed: mkdir failed",
             success |-> "Pre Plan Stage - Success",
             failure |-> "Pre Plan Stage - Failed"]
      [] stage = PostPlan ->
            [mkdirFailed |-> "Post-Plan Stage Failed: mkdir failed",
             success |-> "Post Plan Stage - Success",
             failure |-> "Post Plan Stage - Failed"]
      [] stage = PreApply ->
            [mkdirFailed |-> "Pre-Apply Stage Failed: mkdir failed",
             success |-> "Pre Apply Stage - Success",
             failure |-> "Pre Apply Stage - Failed"]
      [] stage = PostApply ->
            [mkdirFailed |-> "Post-Apply Stage Failed: mkdir failed",
             success |-> "Post Apply Stage - Success",
             failure |-> "Post Apply Stage - Failed"]

\* ------------------------------------------------------------------------
\* runtask.handleTFCRequestWrapper (run_task_handler.go), one request at a
\* time.  The handler reads task.config and writes nothing outside the
\* request it serves.
\* ------------------------------------------------------------------------

\* Configure ran with some shared secret; no request has arrived.
\* No file is known, no token is set, and the helpers were not called.
HelperInit ==
    /\ files = <<>>
    /\ token = ""
    /\ httpGets = <<>>
    /\ returned = <<>>

HandlerInit ==
    /\ config \in {[HmacKey |-> k] : k \in HmacKeyInputs}
    /\ pc = "idle"
    /\ httpReq = NoRequest
    /\ reqBody = NotJson
    /\ runTaskReq = ZeroTaskRequest
    /\ stageError = FALSE
    /\ httpStatus = 0
    /\ verifyCalls = <<>>
    /\ stageCalls = <<>>
    /\ callbacks = 0
    /\ sigChecks = 0
    /\ mkdirs = <<>>
    /\ steps = <<>>
    /\ stageResponse = NilPtr
    /\ stageRequest = ZeroTaskRequest
    /\ runTaskPath = NoPath
    /\ stageTrace = <<>>
    /\ HelperInit
    /\ goroutines = <<>>

\* The router calls the handler with a POST request.  The locals of the
\* previous call, its stage response included, are unreachable.
Arrive(body, signature) ==
    /\ pc \in {"idle", "done"}
    /\ pc' = "ReadBody"
    /\ httpReq' = [body |-> body, signature |-> signature]
    /\ reqBody' = NotJson
    /\ runTaskReq' = ZeroTaskRequest
    /\ stageError' = FALSE
    /\ httpStatus' = 0
    /\ verifyCalls' = <<>>
    /\ stageCalls' = <<>>
    /\ callbacks' = 0
    /\ sigChecks' = 0
    /\ mkdirs' = <<>>
    /\ steps' = <<>>
    /\ stageResponse' = NilPtr
    /\ stageRequest' = ZeroTaskRequest
    /\ runTaskPath' = NoPath
    /\ stageTrace' = <<>>
    /\ UNCHANGED <<goroutines, helperVars>>
    /\ heap' = <<>>
    /\ base' = NilPtr
    /\ UNCHANGED <<config, r, cb, last, addLog, lastSet, panicked>>

\* http.Error(w, ..., code) or w.WriteHeader(code), followed by return
Respond(code) ==
    /\ httpStatus' = code
    /\ pc' = "Return"

\* reqBody, err := io.ReadAll(r.Body); the read may fail.
ReadBody(readFails) ==
    /\ pc = "ReadBody"
    /\ IF readFails
       THEN /\ Respond(StatusBadRequest)
            /\ UNCHANGED reqBody
       ELSE /\ reqBody' = httpReq.body
            /\ pc' = "Unmarshal"
            /\ UNCHANGED httpStatus
    /\ UNCHANGED <<config, httpReq, runTaskReq, stageError, verifyCalls,
                   stageCalls, callbacks, sigChecks, stageVars, builderVars>>

\* DecodeBody going on with the zero request when decoding fails.
DecodeBodyIgnoreError ==
    /\ pc = "Unmarshal"
    /\ runTaskReq' = Unmarshal(reqBody).req
    /\ pc' = "CheckSignature"
    /\ UNCHANGED <<config, httpReq, reqBody, stageError, verifyCalls,
                   httpStatus, stageCalls, callbacks, sigChecks, stageVars,
                   builderVars>>

\* DecodeBody handing a decoded request on without the signature policy.
DecodeBodySkipSignature ==
    /\ pc = "Unmarshal"
    /\ IF Unmarshal(reqBody).err
       THEN /\ Respond(StatusBadRequest)
            /\ UNCHANGED runTaskReq
       ELSE /\ runTaskReq' = Unmarshal(reqBody).req
            /\ pc' = "EndpointValidation"
            /\ UNCHANGED httpStatus
    /\ UNCHANGED <<config, httpReq, reqBody, stageError, verifyCalls,
                   stageCalls, callbacks, sigChecks, stageVars, builderVars>>

\* err = json.Unmarshal(reqBody, &runTaskReq)
DecodeBody ==
    /\ pc = "Unmarshal"
    /\ IF Unmarshal(reqBody).err
       THEN /\ Respond(StatusBadRequest)
            /\ UNCHANGED runTaskReq
       ELSE /\ runTaskReq' = Unmarshal(reqBody).req
            /\ pc' = "CheckSignature"
            /\ UNCHANGED httpStatus
    /\ UNCHANGED <<config, httpReq, reqBody, stageError, verifyCalls,
                   stageCalls, callbacks, sigChecks, stageVars, builderVars>>

\* The record kept of one VerifyHMAC call: its arguments and its results.
VerifyCall(body, signature, key, res) ==
    [body |-> body, signature |-> signature, key |-> key,
     verified |-> res.verified, err |-> res.err]

\* CheckSignature without the check for an unsigned request.
CheckSignatureNoUnsignedCheck ==
    LET requestSha == httpReq.signature
        res == VerifyHMAC(reqBody, httpReq.signature, config.HmacKey)
    IN  /\ pc = "CheckSignature"
        /\ sigChecks' = sigChecks + 1
        /\ IF requestSha # NoSignature /\ config.HmacKey = ""
           THEN /\ Respond(StatusBadRequest)
                /\ UNCHANGED verifyCalls
           ELSE IF requestSha # NoSignature
           THEN /\ verifyCalls' =
                    Append(verifyCalls,
                           VerifyCall(reqBody, requestSha, config.HmacKey, res))
                /\ IF res.err
                   THEN Respond(StatusInternalServerError)
                   ELSE IF ~res.verified
                   THEN Respond(StatusUnauthorized)
                   ELSE /\ pc' = "EndpointValidation"
                        /\ UNCHANGED httpStatus
           ELSE /\ pc' = "EndpointValidation"
                /\ UNCHANGED <<httpStatus, verifyCalls>>
        /\ UNCHANGED <<config, httpReq, reqBody, runTaskReq, stageError,
                       stageCalls, callbacks, stageVars, builderVars>>

\* CheckSignature without the check for a signature it cannot verify.
CheckSignatureNoUnexpectedCheck ==
    LET requestSha == httpReq.signature
        res == VerifyHMAC(reqBody, httpReq.signature, config.HmacKey)
    IN  /\ pc = "CheckSignature"
        /\ sigChecks' = sigChecks + 1
        /\ IF requestSha = NoSignature /\ config.HmacKey # ""
           THEN /\ Respond(StatusUnauthorized)
                /\ UNCHANGED verifyCalls
           ELSE IF requestSha # NoSignature
           THEN /\ verifyCalls' =
                    Append(verifyCalls,
                           VerifyCall(reqBody, requestSha, config.HmacKey, res))
                /\ IF res.err
                   THEN Respond(StatusInternalServerError)
                   ELSE IF ~res.verified
                   THEN Respond(StatusUnauthorized)
                   ELSE /\ pc' = "EndpointValidation"
                        /\ UNCHANGED httpStatus
           ELSE /\ pc' = "EndpointValidation"
                /\ UNCHANGED <<httpStatus, verifyCalls>>
        /\ UNCHANGED <<config, httpReq, reqBody, runTaskReq, stageError,
                       stageCalls, callbacks, stageVars, builderVars>>

\* CheckSignature going on after a signature that did not verify.
CheckSignatureIgnoreMismatch ==
    LET requestSha == httpReq.signature
        res == VerifyHMAC(reqBody, httpReq.signature, config.HmacKey)
    IN  /\ pc = "CheckSignature"
        /\ sigChecks' = sigChecks + 1
        /\ IF requestSha # NoSignature /\ config.HmacKey = ""
           THEN /\ Respond(StatusBadRequest)
                /\ UNCHANGED verifyCalls
           ELSE IF requestSha = NoSignature /\ config.HmacKey # ""
           THEN /\ Respond(StatusUnauthorized)
                /\ UNCHANGED verifyCalls
           ELSE IF requestSha # NoSignature
           THEN /\ verifyCalls' =
                    Append(verifyCalls,
                           VerifyCall(reqBody, requestSha, config.HmacKey, res))
                /\ IF res.err
                   THEN Respond(StatusInternalServerError)
                   ELSE /\ pc' = "EndpointValidation"
                        /\ UNCHANGED httpStatus
           ELSE /\ pc' = "EndpointValidation"
                /\ UNCHANGED <<httpStatus, verifyCalls>>
        /\ UNCHANGED <<config, httpReq, reqBody, runTaskReq, stageError,
                       stageCalls, callbacks, stageVars, builderVars>>

\* CheckSignature turning away every request without a signature.
CheckSignatureRequireSignature ==
    LET requestSha == httpReq.signature
        res == VerifyHMAC(reqBody, httpReq.signature, config.HmacKey)
    IN  /\ pc = "CheckSignature"
        /\ sigChecks' = sigChecks + 1
        /\ IF requestSha # NoSignature /\ config.HmacKey = ""
           THEN /\ Respond(StatusBadRequest)
                /\ UNCHANGED verifyCalls
           ELSE IF requestSha = NoSignature /\ config.HmacKey # ""
           THEN /\ Respond(StatusUnauthorized)
                /\ UNCHANGED verifyCalls
           ELSE IF requestSha # NoSignature
           THEN /\ verifyCalls' =
                    Append(verifyCalls,
                           VerifyCall(reqBody, requestSha, config.HmacKey, res))
                /\ IF res.err
                   THEN Respond(StatusInternalServerError)
                   ELSE IF ~res.verified
                   THEN Respond(StatusUnauthorized)
                   ELSE /\ pc' = "EndpointValidation"
                        /\ UNCHANGED httpStatus
           ELSE /\ Respond(StatusUnauthorized)
                /\ UNCHANGED verifyCalls
        /\ UNCHANGED <<config, httpReq, reqBody, runTaskReq, stageError,
                       stageCalls, callbacks, stageVars, builderVars>>

\* requestSha := r.Header.Get(HeaderTaskSignature) and the three checks
\* on it, VerifyHMAC included.
CheckSignature ==
    LET requestSha == httpReq.signature
        res == VerifyHMAC(reqBody, httpReq.signature, config.HmacKey)
    IN  /\ pc = "CheckSignature"
        /\ sigChecks' = sigChecks + 1
        /\ IF requestSha # NoSignature /\ config.HmacKey = ""
           THEN /\ Respond(StatusBadRequest)
                /\ UNCHANGED verifyCalls
           ELSE IF requestSha = NoSignature /\ config.HmacKey # ""
           THEN /\ Respond(StatusUnauthorized)
                /\ UNCHANGED verifyCalls
           ELSE IF requestSha # NoSignature
           THEN /\ verifyCalls' =
                    Append(verifyCalls,
                           VerifyCall(reqBody, requestSha, config.HmacKey, res))
                /\ IF res.err
                   THEN Respond(StatusInternalServerError)
                   ELSE IF ~res.verified
                   THEN Respond(StatusUnauthorized)
                   ELSE /\ pc' = "EndpointValidation"
                        /\ UNCHANGED httpStatus
           ELSE /\ pc' = "EndpointValidation"
                /\ UNCHANGED <<httpStatus, verifyCalls>>
        /\ UNCHANGED <<config, httpReq, reqBody, runTaskReq, stageError,
                       stageCalls, callbacks, stageVars, builderVars>>

\* if runTaskReq.IsEndpointValidation() { w.WriteHeader(200); return }
EndpointValidation ==
    /\ pc = "EndpointValidation"
    /\ IF IsEndpointValidation(runTaskReq)
       THEN Respond(StatusOK)
       ELSE /\ pc' = "Dispatch"
            /\ UNCHANGED httpStatus
    /\ UNCHANGED <<config, httpReq, reqBody, runTaskReq, stageError,
                   verifyCalls, stageCalls, callbacks, sigChecks, stageVars,
                   builderVars>>

\* The if/else chain on runTaskReq.Stage: the stage routine of a known
\* stage is called; an unknown stage is a bad request.
Dispatch ==
    /\ pc = "Dispatch"
    /\ IF runTaskReq.Stage \in {PrePlan, PostPlan, PreApply, PostApply}
       THEN /\ stageCalls' = Append(stageCalls, runTaskReq.Stage)
            /\ pc' = "StageEntry"
            /\ UNCHANGED httpStatus
       ELSE /\ Respond(StatusBadRequest)
            /\ UNCHANGED stageCalls
    /\ UNCHANGED <<config, httpReq, reqBody, runTaskReq, stageError,
                   verifyCalls, callbacks, sigChecks, stageVars, builderVars>>

\* StageEntry going on to the steps when the directory was not created.
StageEntryIgnoreError(mkdirFails) ==
    LET ntr == NewAddr(heap)
    IN  /\ pc = "StageEntry"
        /\ mkdirs' = Append(mkdirs, mkdirFails)
        /\ stageRequest' =
              CreateRunTaskDirectoryStructure(runTaskReq, mkdirFails).req
        /\ runTaskPath' =
              CreateRunTaskDirectoryStructure(runTaskReq, mkdirFails).path
        /\ base' = ntr
        /\ heap' = heap @@ (ntr :> NewTaskResponse)
        /\ pc' = "StageStep"
        /\ stageTrace' = <<"NewTaskResponse">>
        /\ UNCHANGED <<stageError, stageResponse, steps, goroutines,
                       helperVars>>
        /\ UNCHANGED <<config, httpReq, reqBody, runTaskReq, httpStatus,
                       verifyCalls, stageCalls, callbacks, sigChecks,
                       r, cb, last, addLog, lastSet, panicked>>

\* The head of a stage routine: ntr := api.NewTaskResponse(), then
\* request.CreateRunTaskDirectoryStructure(), which may fail; on failure the
\* routine returns the failed response together with the error.
StageEntry(mkdirFails) ==
    LET ntr == NewAddr(heap)
        h1 == heap @@ (ntr :> NewTaskResponse)
        a == AddOutcome(h1, ntr, "create-directory",
                        "Failed to create directory", MkdirError,
                        ReferenceURL(runTaskReq), "failed", TagLevelError)
        s == SetResult(a.heap, a.ret, TaskFailed,
                       StageMessages(runTaskReq.Stage).mkdirFailed)
    IN  /\ pc = "StageEntry"
        /\ mkdirs' = Append(mkdirs, mkdirFails)
        /\ stageRequest' =
              CreateRunTaskDirectoryStructure(runTaskReq, mkdirFails).req
        /\ runTaskPath' =
              CreateRunTaskDirectoryStructure(runTaskReq, mkdirFails).path
        /\ base' = ntr
        /\ IF mkdirFails
           THEN /\ heap' = s.heap
                /\ stageResponse' = s.ret
                /\ stageError' = TRUE
                /\ pc' = "CheckStageError"
           ELSE /\ heap' = h1
                /\ pc' = "StageStep"
                /\ UNCHANGED <<stageError, stageResponse>>
        /\ stageTrace' = IF mkdirFails
                         THEN <<"NewTaskResponse", "AddOutcome", "SetResult">>
                         ELSE <<"NewTaskResponse">>
        /\ UNCHANGED <<steps, goroutines,
                       helperVars>>
        /\ UNCHANGED <<config, httpReq, reqBody, runTaskReq, httpStatus,
                       verifyCalls, stageCalls, callbacks, sigChecks,
                       r, cb, last, addLog, lastSet, panicked>>

\* StageStep leaving the remaining steps out after a step that failed.
StageStepAbortOnError(fails) ==
    LET table == StageSteps(runTaskReq.Stage)
        i == Len(steps) + 1
        a == IF fails
             THEN AddOutcome(heap, base, table[i].id, table[i].failed,
                             StepError, ReferenceURL(runTaskReq),
                             "failed", TagLevelError)
             ELSE AddOutcome(heap, base, table[i].id, table[i].ok,
                             "", ReferenceURL(runTaskReq),
                             "success", TagLevelNone)
    IN  /\ pc = "StageStep"
        /\ i <= Len(table)
        /\ heap' = a.heap
        /\ steps' = Append(steps, [id |-> table[i].id, err |-> fails])
        /\ pc' = IF i = Len(table) \/ fails THEN "StageFinish" ELSE "StageStep"
        /\ stageTrace' = Append(stageTrace, "AddOutcome")
        /\ UNCHANGED <<mkdirs, stageResponse, stageError, stageRequest,
                       runTaskPath, goroutines,
                       helperVars>>
        /\ UNCHANGED <<config, httpReq, reqBody, runTaskReq, httpStatus,
                       verifyCalls, stageCalls, callbacks, sigChecks,
                       base, r, cb, last, addLog, lastSet, panicked>>

\* The next data-collection step of the stage routine: the step runs and
\* may fail, and either way one outcome is added for it.
StageStep(fails) ==
    LET table == StageSteps(runTaskReq.Stage)
        i == Len(steps) + 1
        a == IF fails
             THEN AddOutcome(heap, base, table[i].id, table[i].failed,
                             StepError, ReferenceURL(runTaskReq),
                             "failed", TagLevelError)
             ELSE AddOutcome(heap, base, table[i].id, table[i].ok,
                             "", ReferenceURL(runTaskReq),
                             "success", TagLevelNone)
    IN  /\ pc = "StageStep"
        /\ i <= Len(table)
        /\ heap' = a.heap
        /\ steps' = Append(steps, [id |-> table[i].id, err |-> fails])
        /\ pc' = IF i = Len(table) THEN "StageFinish" ELSE "StageStep"
        /\ stageTrace' = Append(stageTrace, "AddOutcome")
        /\ UNCHANGED <<mkdirs, stageResponse, stageError, stageRequest,
                       runTaskPath, goroutines,
                       helperVars>>
        /\ UNCHANGED <<config, httpReq, reqBody, runTaskReq, httpStatus,
                       verifyCalls, stageCalls, callbacks, sigChecks,
                       base, r, cb, last, addLog, lastSet, panicked>>

\* StageFinish setting the result of a routine with a failed step only.
StageFinishOnlyOnFailure ==
    LET msgs == StageMessages(runTaskReq.Stage)
        s == IF IsPassed(heap[base])
             THEN [heap |-> heap, ret |-> base, panic |-> FALSE]
             ELSE SetResult(heap, base, TaskFailed, msgs.failure)
        u == WithUrl(s.heap, s.ret, ReferenceURL(runTaskReq))
    IN  /\ pc = "StageFinish"
        /\ heap' = u.heap
        /\ stageResponse' = base
        /\ stageError' = FALSE
        /\ pc' = "CheckStageError"
        /\ stageTrace' = IF IsPassed(heap[base])
                         THEN stageTrace \o <<"IsPassed", "WithUrl">>
                         ELSE stageTrace \o <<"IsPassed", "SetResult", "WithUrl">>
        /\ UNCHANGED <<mkdirs, steps, stageRequest, runTaskPath, goroutines,
                       helperVars>>
        /\ UNCHANGED <<config, httpReq, reqBody, runTaskReq, httpStatus,
                       verifyCalls, stageCalls, callbacks, sigChecks,
                       base, r, cb, last, addLog, lastSet, panicked>>

\* The tail of a stage routine: if ntr.IsPassed() { SetResult(passed, ...)
\* .WithUrl(referenceURL) } else { SetResult(failed, ...).WithUrl(...) },
\* then return ntr, nil.
StageFinish ==
    LET msgs == StageMessages(runTaskReq.Stage)
        s == IF IsPassed(heap[base])
             THEN SetResult(heap, base, TaskPassed, msgs.success)
             ELSE SetResult(heap, base, TaskFailed, msgs.failure)
        u == WithUrl(s.heap, s.ret, ReferenceURL(runTaskReq))
    IN  /\ pc = "StageFinish"
        /\ heap' = u.heap
        /\ stageResponse' = base
        /\ stageError' = FALSE
        /\ pc' = "CheckStageError"
        /\ stageTrace' = stageTrace \o <<"IsPassed", "SetResult", "WithUrl">>
        /\ UNCHANGED <<mkdirs, steps, stageRequest, runTaskPath, goroutines,
                       helperVars>>
        /\ UNCHANGED <<config, httpReq, reqBody, runTaskReq, httpStatus,
                       verifyCalls, stageCalls, callbacks, sigChecks,
                       base, r, cb, last, addLog, lastSet, panicked>>

\* CheckStageError going on to the callback whatever the routine returned.
CheckStageErrorIgnored ==
    /\ pc = "CheckStageError"
    /\ pc' = "Callback"
    /\ UNCHANGED httpStatus
    /\ UNCHANGED <<config, httpReq, reqBody, runTaskReq, stageError,
                   verifyCalls, stageCalls, callbacks, sigChecks, stageVars,
                   builderVars>>

\* if stageError != nil { http.Error(w, ..., 500); return }
CheckStageError ==
    /\ pc = "CheckStageError"
    /\ IF stageError
       THEN Respond(StatusInternalServerError)
       ELSE /\ pc' = "Callback"
            /\ UNCHANGED httpStatus
    /\ UNCHANGED <<config, httpReq, reqBody, runTaskReq, stageError,
                   verifyCalls, stageCalls, callbacks, sigChecks, stageVars,
                   builderVars>>

\* original(w, r, runTaskReq, task, stageResponse): sendTFCCallbackResponse
\* marshals the response and sends the PATCH request, which may fail.
SendCallback(sendFails) ==
    /\ pc = "Callback"
    /\ callbacks' = callbacks + 1
    /\ httpStatus' = IF sendFails THEN StatusNotFound ELSE httpStatus
    /\ pc' = "Return"
    /\ UNCHANGED <<config, httpReq, reqBody, runTaskReq, stageError,
                   verifyCalls, stageCalls, sigChecks, stageVars, builderVars>>

\* The handler returns; net/http answers 200 when no status was written.
Return ==
    /\ pc = "Return"
    /\ httpStatus' = IF httpStatus = 0 THEN StatusOK ELSE httpStatus
    /\ pc' = "done"
    /\ UNCHANGED <<config, httpReq, reqBody, runTaskReq, stageError,
                   verifyCalls, stageCalls, callbacks, sigChecks, stageVars,
                   builderVars>>

NextHandler ==
    \/ \E b \in BodyInputs, sig \in SignatureInputs : Arrive(b, sig)
    \/ \E f \in BOOLEAN : ReadBody(f)
    \/ DecodeBody
    \/ CheckSignature
    \/ EndpointValidation
    \/ Dispatch
    \/ \E f \in BOOLEAN : StageEntry(f)
    \/ \E f \in BOOLEAN : StageStep(f)
    \/ StageFinish
    \/ CheckStageError
    \/ \E f \in BOOLEAN : SendCallback(f)
    \/ Return

\* ------------------------------------------------------------------------
\* Specifications
\* ------------------------------------------------------------------------

\* The result builder driven by a caller; no request is being served.
Init ==
    /\ BuilderInit
    /\ HandlerInit
    /\ config.HmacKey = ""

Spec == Init /\ [][Next]_vars

\* &api.TaskResponse{}: the zero value, its Relationships pointer nil.
ZeroTaskResponse ==
    [Data |->
        [Type |-> "",
         Attributes |-> [Message |-> "", Status |-> "", URL |-> UrlEmpty],
         Relationships |-> NilRelationships]]

\* The results a caller can hold a pointer to: the one NewTaskResponse
\* makes, the response of a CallbackBuilder (GetResponse) and the zero value.
AnyResults ==
    {NewTaskResponse, ZeroTaskResponse}
        \cup {NewCallbackBuilder(s) : s \in StatusInputs}

\* The result builder driven by a caller on any of these results.
InitAnyResult ==
    /\ heap \in {(1 :> res) : res \in AnyResults}
    /\ base = 1
    /\ r = 1
    /\ cb = NewCallbackBuilder(TaskRunning)
    /\ last = [op |-> "none", args |-> <<>>, ret |-> 1, passed |-> TRUE]
    /\ addLog = <<>>
    /\ lastSet = NoCall
    /\ panicked = FALSE
    /\ HandlerInit
    /\ config.HmacKey = ""

NextAnyResult ==
    \/ \E a \in OutcomeInputs : CallAddOutcome(a)
    \/ \E s \in StatusInputs, m \in MessageInputs : CallSetResult(s, m)

SpecAnyResult == InitAnyResult /\ [][NextAnyResult]_vars

\* Requests given to CreateRunTaskDirectoryStructure: workspace names and
\* run ids that are plain, empty, "." or "..", every stage, an unknown
\* stage and no stage.
DirectoryRequests ==
    { [AccessToken |-> "tfc-token", Stage |-> st, RunID |-> run,
       WorkspaceName |-> ws, TaskDirectory |-> NoPath] :
        ws \in {"", ".", "..", "ws-1"},
        run \in {"", "..", "run-1"},
        st \in {PrePlan, PostPlan, PreApply, PostApply, "post_run", ""} }

\* A caller holds a request and no directory was asked for yet.
InitDirectory ==
    /\ BuilderInit
    /\ config = [HmacKey |-> ""]
    /\ pc = "idle"
    /\ httpReq = NoRequest
    /\ reqBody = NotJson
    /\ runTaskReq = ZeroTaskRequest
    /\ stageError = FALSE
    /\ httpStatus = 0
    /\ verifyCalls = <<>>
    /\ stageCalls = <<>>
    /\ callbacks = 0
    /\ sigChecks = 0
    /\ mkdirs = <<>>
    /\ steps = <<>>
    /\ stageResponse = NilPtr
    /\ stageRequest \in DirectoryRequests
    /\ runTaskPath = NoPath
    /\ stageTrace = <<>>
    /\ HelperInit
    /\ goroutines = <<>>

\* path, err := request.CreateRunTaskDirectoryStructure(), called once.
CallCreateRunTaskDirectoryStructure(mkdirFails) ==
    LET res == CreateRunTaskDirectoryStructure(stageRequest, mkdirFails)
    IN  /\ mkdirs = <<>>
        /\ mkdirs' = Append(mkdirs, res.err)
        /\ stageRequest' = res.req
        /\ runTaskPath' = res.path
        /\ UNCHANGED <<config, pc, httpReq, reqBody, runTaskReq, stageError,
                       httpStatus, verifyCalls, stageCalls, callbacks,
                       sigChecks, steps, stageResponse, goroutines,
                       stageTrace, helperVars, builderVars>>

NextDirectory ==
    \E f \in BOOLEAN : CallCreateRunTaskDirectoryStructure(f)

SpecDirectory == InitDirectory /\ [][NextDirectory]_vars

\* Everything but the heap and the goroutines.
sequentialVars ==
    <<base, r, cb, last, addLog, lastSet, panicked, config, pc, httpReq,
      reqBody, runTaskReq, stageError, httpStatus, verifyCalls, stageCalls,
      callbacks, sigChecks, mkdirs, steps, stageResponse, stageRequest,
      runTaskPath, stageTrace, helperVars>>

\* The request the i-th goroutine serves: a pre_plan request of its own run.
RequestOf(i) ==
    [AccessToken |-> "tfc-token", Stage |-> PrePlan,
     RunID |-> <<"run-1", "run-2", "run-3", "run-4">>[i],
     WorkspaceName |-> "ws-1", TaskDirectory |-> NoPath]

\* net/http serves every request in a goroutine of its own; each is about
\* to call the stage routine with its decoded request.  They share the heap
\* and task.config.
InitConcurrent ==
    /\ heap = <<>>
    /\ base = NilPtr
    /\ r = NilPtr
    /\ cb = NewCallbackBuilder(TaskRunning)
    /\ last = [op |-> "none", args |-> <<>>, ret |-> NilPtr, passed |-> TRUE]
    /\ addLog = <<>>
    /\ lastSet = NoCall
    /\ panicked = FALSE
    /\ config \in {[HmacKey |-> k] : k \in HmacKeyInputs}
    /\ pc = "idle"
    /\ httpReq = NoRequest
    /\ reqBody = NotJson
    /\ runTaskReq = ZeroTaskRequest
    /\ stageError = FALSE
    /\ httpStatus = 0
    /\ verifyCalls = <<>>
    /\ stageCalls = <<>>
    /\ callbacks = 0
    /\ sigChecks = 0
    /\ mkdirs = <<>>
    /\ steps = <<>>
    /\ stageResponse = NilPtr
    /\ stageRequest = ZeroTaskRequest
    /\ runTaskPath = NoPath
    /\ stageTrace = <<>>
    /\ HelperInit
    /\ goroutines =
          [i \in 1..MaxRequests |->
              [pc |-> "StageEntry", request |-> RequestOf(i), ntr |-> NilPtr,
               mkdirs |-> <<>>, steps |-> <<>>, resp |-> NilPtr,
               err |-> FALSE]]

\* GoStageEntry with one result that all calls of the routine share.
GoStageEntryShared(i, mkdirFails) ==
    LET g == goroutines[i]
        ntr == 1
        h1 == IF heap = <<>> THEN (ntr :> NewTaskResponse) ELSE heap
        d == CreateRunTaskDirectoryStructure(g.request, mkdirFails)
        a == AddOutcome(h1, ntr, "create-directory",
                        "Failed to create directory", MkdirError,
                        ReferenceURL(g.request), "failed", TagLevelError)
        s == SetResult(a.heap, a.ret, TaskFailed,
                       StageMessages(g.request.Stage).mkdirFailed)
    IN  /\ g.pc = "StageEntry"
        /\ IF d.err
           THEN /\ heap' = s.heap
                /\ goroutines' =
                      [goroutines EXCEPT ![i] =
                          [g EXCEPT !.pc = "returned", !.request = d.req,
                                    !.ntr = ntr, !.mkdirs = <<d.err>>,
                                    !.resp = s.ret, !.err = TRUE]]
           ELSE /\ heap' = h1
                /\ goroutines' =
                      [goroutines EXCEPT ![i] =
                          [g EXCEPT !.pc = "StageStep", !.request = d.req,
                                    !.ntr = ntr, !.mkdirs = <<d.err>>]]
        /\ UNCHANGED sequentialVars

\* The head of the stage routine in goroutine i: its own
\* ntr := api.NewTaskResponse(), then the run directory.
GoStageEntry(i, mkdirFails) ==
    LET g == goroutines[i]
        ntr == NewAddr(heap)
        h1 == heap @@ (ntr :> NewTaskResponse)
        d == CreateRunTaskDirectoryStructure(g.request, mkdirFails)
        a == AddOutcome(h1, ntr, "create-directory",
                        "Failed to create directory", MkdirError,
                        ReferenceURL(g.request), "failed", TagLevelError)
        s == SetResult(a.heap, a.ret, TaskFailed,
                       StageMessages(g.request.Stage).mkdirFailed)
    IN  /\ g.pc = "StageEntry"
        /\ IF d.err
           THEN /\ heap' = s.heap
                /\ goroutines' =
                      [goroutines EXCEPT ![i] =
                          [g EXCEPT !.pc = "returned", !.request = d.req,
                                    !.ntr = ntr, !.mkdirs = <<d.err>>,
                                    !.resp = s.ret, !.err = TRUE]]
           ELSE /\ heap' = h1
                /\ goroutines' =
                      [goroutines EXCEPT ![i] =
                          [g EXCEPT !.pc = "StageStep", !.request = d.req,
                                    !.ntr = ntr, !.mkdirs = <<d.err>>]]
        /\ UNCHANGED sequentialVars

\* The next data-collection step of the stage routine in goroutine i.
GoStageStep(i, fails) ==
    LET g == goroutines[i]
        table == StageSteps(g.request.Stage)
        k == Len(g.steps) + 1
        a == IF fails
             THEN AddOutcome(heap, g.ntr, table[k].id, table[k].failed,
                             StepError, ReferenceURL(g.request),
                             "failed", TagLevelError)
             ELSE AddOutcome(heap, g.ntr, table[k].id, table[k].ok,
                             "", ReferenceURL(g.request),
                             "success", TagLevelNone)
    IN  /\ g.pc = "StageStep"
        /\ k <= Len(table)
        /\ heap' = a.heap
        /\ goroutines' =
              [goroutines EXCEPT ![i] =
                  [g EXCEPT !.steps = Append(g.steps,
                                             [id |-> table[k].id, err |-> fails]),
                            !.pc = IF k = Len(table) THEN "StageFinish"
                                                     ELSE "StageStep"]]
        /\ UNCHANGED sequentialVars

\* The tail of the stage routine in goroutine i, and its return.
GoStageFinish(i) ==
    LET g == goroutines[i]
        msgs == StageMessages(g.request.Stage)
        s == IF IsPassed(heap[g.ntr])
             THEN SetResult(heap, g.ntr, TaskPassed, msgs.success)
             ELSE SetResult(heap, g.ntr, TaskFailed, msgs.failure)
        u == WithUrl(s.heap, s.ret, ReferenceURL(g.request))
    IN  /\ g.pc = "StageFinish"
        /\ heap' = u.heap
        /\ goroutines' =
              [goroutines EXCEPT ![i] =
                  [g EXCEPT !.pc = "returned", !.resp = g.ntr, !.err = FALSE]]
        /\ UNCHANGED sequentialVars

NextConcurrent ==
    \/ \E i \in 1..MaxRequests, f \in BOOLEAN : GoStageEntry(i, f)
    \/ \E i \in 1..MaxRequests, f \in BOOLEAN : GoStageStep(i, f)
    \/ \E i \in 1..MaxRequests : GoStageFinish(i)

SpecConcurrent == InitConcurrent /\ [][NextConcurrent]_vars

\* The server handling inbound requests.
InitHandler ==
    /\ heap = <<>>
    /\ base = NilPtr
    /\ r = NilPtr
    /\ cb = NewCallbackBuilder(TaskRunning)
    /\ last = [op |-> "none", args |-> <<>>, ret |-> NilPtr, passed |-> TRUE]
    /\ addLog = <<>>
    /\ lastSet = NoCall
    /\ panicked = FALSE
    /\ HandlerInit

SpecHandler == InitHandler /\ [][NextHandler]_vars

\* ------------------------------------------------------------------------
\* Properties of the result builder
\* ------------------------------------------------------------------------

\* The result the caller built, its top-level attributes and its outcomes.
Result == heap[base]
Attributes == Result.Data.Attributes
Outcomes == Result.Data.Relationships.Outcomes.Data.elems

\* The arguments of UrlInputs that begin with http:// or https://.
ApprovedUrls == {UrlHttp, UrlHttps}

\* The tag levels found in the outcomes of a result, in any position.
ContainedLevels(resp) ==
    LET data == resp.Data.Relationships.Outcomes.Data.elems
    IN  UNION { { data[i].Attributes.Tags.Status[j].Level :
                    j \in DOMAIN data[i].Attributes.Tags.Status } :
                i \in DOMAIN data }

ErrorAdded == \E i \in DOMAIN addLog : addLog[i].level = TagLevelError

\* C1: after any sequence of AddOutcome, SetResult and WithUrl calls on a
\* result from NewTaskResponse, IsPassed() is true if and only if no
\* contained outcome has a tag at level error, which is the case exactly
\* when no AddOutcome call was given level error; it is true with zero
\* outcomes and when all levels are among none, info and warning.
C1_IsPassedIffNoError ==
    /\ IsPassed(Result) <=> TagLevelError \notin ContainedLevels(Result)
    /\ IsPassed(Result) <=> ~ErrorAdded
    /\ Outcomes = <<>> => IsPassed(Result)
    /\ ContainedLevels(Result) \subseteq {"none", "info", "warning"}
            => IsPassed(Result)
    /\ last.op = "IsPassed" => (last.passed <=> ~ErrorAdded)

C1_Witness ==
    /\ last.op = "IsPassed"
    /\ ~last.passed
    /\ Len(addLog) >= 2
    /\ addLog[1].level = "warning"
    /\ lastSet.called /\ lastSet.status = "passed"

\* C2: error dominance is permanent: an AddOutcome call with level error
\* makes IsPassed() false, and no later AddOutcome, SetResult or WithUrl
\* call makes it true again.
C2_ErrorDominancePermanent ==
    [][ /\ (last'.op = "AddOutcome" /\ last'.args.level = "error")
            => ~IsPassed(heap'[base])
        /\ ~IsPassed(heap[base]) => ~IsPassed(heap'[base]) ]_vars

C2_Witness ==
    /\ Len(addLog) >= 2
    /\ addLog[1].level = "error"
    /\ last.op = "SetResult" /\ last.args.status = "passed"
    /\ ~IsPassed(Result)

\* C3: WithUrl(u) on a freshly constructed result sets the top-level URL
\* to exactly u when u begins with http:// or https:// (case-sensitive)
\* and leaves it empty for every other u; the same holds for
\* CallbackBuilder.WithUrl on a freshly constructed callback builder.
C3_UrlSchemeGate ==
    [][ /\ (heap[base] = NewTaskResponse /\ last'.op = "WithUrl")
            => heap'[base].Data.Attributes.URL =
                   IF last'.args.url \in ApprovedUrls
                   THEN last'.args.url ELSE <<>>
        /\ (cb.Data.Attributes.URL = <<>>
                /\ last'.op = "CallbackBuilder.WithUrl")
            => cb'.Data.Attributes.URL =
                   IF last'.args.url \in ApprovedUrls
                   THEN last'.args.url ELSE <<>> ]_vars

C3_Witness ==
    /\ last.op = "WithUrl"
    /\ last.args.url = UrlUpper
    /\ Attributes.URL = <<>>
    /\ addLog = <<>>
    /\ ~lastSet.called

\* C4: a WithUrl call whose argument fails the prefix check returns the
\* receiver and leaves the top-level URL (empty or a previously set valid
\* value), the status, the message and the outcomes as they were.
C4_RejectedUrlIsNoOp ==
    [][ (last'.op = "WithUrl" /\ last'.args.url \notin ApprovedUrls)
            => /\ last'.ret = r
               /\ r' = r
               /\ heap' = heap ]_vars

C4_Witness ==
    /\ last.op = "WithUrl"
    /\ last.args.url = UrlFtp
    /\ Attributes.URL = UrlHttp
    /\ Len(Outcomes) >= 1
    /\ lastSet.called

\* C5: after N AddOutcome calls, with any SetResult and WithUrl calls in
\* between, the outcome list has length N and its i-th element carries the
\* id, description, body, url, label and level of the i-th call; the
\* serialized outcome list has the same length and order.
C5_AppendOrderPreserved ==
    LET items == MarshalTaskResponse(Result).data.relationships.outcomes.data.items
    IN  /\ Len(Outcomes) = Len(addLog)
        /\ \A i \in DOMAIN addLog :
              /\ Outcomes[i].Attributes.OutcomeID = addLog[i].outcomeId
              /\ Outcomes[i].Attributes.Description = addLog[i].description
              /\ Outcomes[i].Attributes.Body = addLog[i].body
              /\ Outcomes[i].Attributes.URL = addLog[i].url
              /\ Outcomes[i].Attributes.Tags.Status[1].Label = addLog[i].label
              /\ Outcomes[i].Attributes.Tags.Status[1].Level = addLog[i].level
        /\ Len(items) = Len(addLog)
        /\ \A i \in DOMAIN addLog :
              /\ items[i].attributes["outcome-id"] = addLog[i].outcomeId
              /\ items[i].attributes.tags.status[1].label = addLog[i].label
              /\ items[i].attributes.tags.status[1].level = addLog[i].level

C5_Witness ==
    /\ Len(addLog) >= 3
    /\ addLog[1].outcomeId = "o3"
    /\ addLog[2].outcomeId = "o1"
    /\ addLog[3].outcomeId = "o2"
    /\ lastSet.called
    /\ Attributes.URL = UrlHttp

\* C6: AddOutcome, SetResult and WithUrl return the pointer they were
\* called on: the handle a chain of calls ends with is the pointer
\* NewTaskResponse returned, and no other TaskResponse was allocated, so
\* every call of the chain acted on that one object.
C6_ChainingIdentity ==
    /\ r = base
    /\ last.ret = base
    /\ DOMAIN heap = {base}

C6_Witness ==
    /\ last.op = "WithUrl"
    /\ last.ret = base
    /\ Len(Outcomes) >= 2
    /\ Attributes.Status = "passed"
    /\ Attributes.URL = UrlHttps

\* C7: the top-level status and message are the arguments of the latest
\* SetResult call, wherever it came among the AddOutcome calls and however
\* many SetResult calls preceded it; an empty message in the latest call
\* clears an earlier message.  Before the first call both are empty.
C7_LastSetResultWins ==
    /\ Attributes.Status = lastSet.status
    /\ Attributes.Message = lastSet.message
    /\ ~lastSet.called => (Attributes.Status = "" /\ Attributes.Message = "")
    /\ last.op = "SetResult"
          => /\ Attributes.Status = last.args.status
             /\ Attributes.Message = last.args.message

C7_Witness ==
    /\ last.op = "AddOutcome"
    /\ Len(addLog) >= 2
    /\ lastSet.called
    /\ lastSet.status = "failed"
    /\ lastSet.message = ""
    /\ Attributes.Message = ""

\* C8: NewTaskResponse returns a non-nil result of type "task-results"
\* whose Relationships is non-nil and holds a non-nil empty outcome list,
\* with empty status, message and URL.
C8_NewTaskResponseDefaults ==
    last.op = "NewTaskResponse"
        => /\ last.ret # NilPtr
           /\ last.ret \in DOMAIN heap
           /\ heap[last.ret].Data.Type = "task-results"
           /\ ~heap[last.ret].Data.Relationships.nil
           /\ ~heap[last.ret].Data.Relationships.Outcomes.Data.nil
           /\ heap[last.ret].Data.Relationships.Outcomes.Data.elems = <<>>
           /\ heap[last.ret].Data.Attributes.Status = ""
           /\ heap[last.ret].Data.Attributes.Message = ""
           /\ heap[last.ret].Data.Attributes.URL = <<>>

C8_Witness ==
    /\ last.op = "NewTaskResponse"
    /\ heap[last.ret] = NewTaskResponse

\* ------------------------------------------------------------------------
\* Properties of the request handler
\* ------------------------------------------------------------------------

\* A request is being served or was answered.
Serving == pc # "idle"

\* The handler read the request's body and decoded it as JSON.
BodyDecoded ==
    /\ httpReq.body.json
    /\ reqBody = httpReq.body
    /\ runTaskReq = Unmarshal(httpReq.body).req

Unsigned == httpReq.signature = NoSignature

\* C9 as stated: for any inbound request, if a shared secret is configured
\* and the request carries no signature header, the request is answered
\* HTTP 401, no stage routine runs and no callback is sent.
C9_UnsignedAlwaysUnauthorized ==
    (Serving /\ config.HmacKey # "" /\ Unsigned)
        => /\ stageCalls = <<>>
           /\ callbacks = 0
           /\ pc = "done" => httpStatus = 401

\* C9 as amended: with a shared secret configured, an inbound request
\* without a signature header whose body was read and decoded as JSON is
\* answered HTTP 401, and one whose body could not be read or decoded is
\* answered HTTP 400; in both cases no stage routine runs and no callback
\* is sent.
C9_UnsignedDecodedUnauthorized ==
    (Serving /\ config.HmacKey # "" /\ Unsigned)
        => /\ stageCalls = <<>>
           /\ callbacks = 0
           /\ (pc = "done" /\ BodyDecoded) => httpStatus = 401
           /\ (pc = "done" /\ ~BodyDecoded) => httpStatus = 400

C9_Witness ==
    /\ pc = "done"
    /\ config.HmacKey = "secret"
    /\ Unsigned
    /\ BodyDecoded
    /\ runTaskReq.Stage = PrePlan
    /\ runTaskReq.AccessToken = "tfc-token"
    /\ httpStatus = 401

\* C10: for any inbound request, if the request carries a signature header
\* and no shared secret is configured, the request is answered HTTP 400,
\* VerifyHMAC is not called, no stage routine runs and no callback is sent.
C10_UnexpectedSignatureBadRequest ==
    (Serving /\ config.HmacKey = "" /\ ~Unsigned)
        => /\ verifyCalls = <<>>
           /\ stageCalls = <<>>
           /\ callbacks = 0
           /\ pc = "done" => httpStatus = 400

C10_Witness ==
    /\ pc = "done"
    /\ config.HmacKey = ""
    /\ BodyDecoded
    /\ runTaskReq.Stage = PostPlan
    /\ runTaskReq.AccessToken = "tfc-token"
    /\ httpReq.signature = HexEncodeToString(HmacSha512("", httpReq.body))
    /\ httpStatus = 400

\* The signature policy was evaluated for the request being served.
PolicyReached == sigChecks > 0

\* The request carries a signature header and a shared secret is configured.
SignedWithKey == config.HmacKey # "" /\ ~Unsigned

\* VerifyHMAC was called and reported that the signature does not match.
Mismatch == verifyCalls # <<>> /\ ~verifyCalls[1].verified

\* No stage routine ran: no directory or file was written, no step ran and
\* no response was built.
NoStageWork ==
    /\ stageCalls = <<>>
    /\ mkdirs = <<>>
    /\ steps = <<>>
    /\ heap = <<>>

\* C11: when the signature policy finds both a signature header and a
\* shared secret, VerifyHMAC is called once, on the bytes read from the
\* request, the header's value and the secret; when it reports a mismatch
\* the request is answered HTTP 401 at once: the endpoint validation is not
\* reached even for the verification token, no stage routine runs, nothing
\* is written and no callback is sent.
C11_MismatchRejected ==
    /\ (PolicyReached /\ SignedWithKey)
        => verifyCalls =
            << [body |-> httpReq.body,
                signature |-> httpReq.signature,
                key |-> config.HmacKey,
                verified |->
                    VerifyHMAC(httpReq.body, httpReq.signature,
                               config.HmacKey).verified,
                err |-> FALSE] >>
    /\ (PolicyReached /\ SignedWithKey /\ Mismatch)
        => /\ pc \in {"Return", "done"}
           /\ httpStatus = StatusUnauthorized
           /\ NoStageWork
           /\ callbacks = 0

C11_Witness ==
    /\ pc = "done"
    /\ config.HmacKey = "secret"
    /\ httpReq.signature = HexEncodeToString(HmacSha512("wrong", httpReq.body))
    /\ runTaskReq.AccessToken = verificationToken
    /\ Mismatch
    /\ httpStatus = StatusUnauthorized


\* The request is unsigned and no shared secret is configured.
UnsignedNoKey == config.HmacKey = "" /\ Unsigned

\* The request carries the signature of its own body under the secret.
CorrectlySigned ==
    /\ SignedWithKey
    /\ httpReq.signature =
        HexEncodeToString(HmacSha512(config.HmacKey, httpReq.body))

\* What the handler does with a request the signature policy lets through,
\* as a function of the decoded request alone.
ProcessedNormally ==
    /\ pc \notin {"ReadBody", "Unmarshal", "CheckSignature"}
    /\ IF IsEndpointValidation(runTaskReq)
       THEN /\ NoStageWork
            /\ callbacks = 0
            /\ pc \in {"EndpointValidation", "Return", "done"}
            /\ pc = "done" => httpStatus = StatusOK
       ELSE IF runTaskReq.Stage \in {PrePlan, PostPlan, PreApply, PostApply}
       THEN /\ pc \notin {"EndpointValidation", "Dispatch"}
                => stageCalls = <<runTaskReq.Stage>>
            /\ pc = "done"
                => \/ /\ mkdirs = <<TRUE>>
                      /\ callbacks = 0
                      /\ httpStatus = StatusInternalServerError
                   \/ /\ mkdirs = <<FALSE>>
                      /\ callbacks = 1
                      /\ httpStatus \in {StatusOK, StatusNotFound}
       ELSE /\ NoStageWork
            /\ callbacks = 0
            /\ pc \in {"EndpointValidation", "Dispatch", "Return", "done"}
            /\ pc = "done" => httpStatus = StatusBadRequest

\* C12: when the signature policy finds neither a signature header nor a
\* shared secret, VerifyHMAC is not called and the handler goes on to the
\* endpoint validation with nothing written, the same step a correctly
\* signed request takes; from there both kinds of request are processed
\* alike: validation requests get 200, known stages run their routine and
\* unknown stages get 400.
C12_UnsignedNoKeyProceeds ==
    /\ [](PolicyReached /\ UnsignedNoKey
            => verifyCalls = <<>> /\ ProcessedNormally)
    /\ [](PolicyReached /\ CorrectlySigned => ProcessedNormally)
    /\ [][(pc = "CheckSignature" /\ (UnsignedNoKey \/ CorrectlySigned))
            => /\ pc' = "EndpointValidation"
               /\ httpStatus' = 0
               /\ UNCHANGED <<runTaskReq, reqBody, stageError, stageCalls,
                              callbacks, stageVars, heap>>]_vars

C12_Witness ==
    /\ pc = "done"
    /\ UnsignedNoKey
    /\ verifyCalls = <<>>
    /\ runTaskReq.AccessToken = "tfc-token"
    /\ stageCalls = <<PostPlan>>
    /\ Len(steps) = 6
    /\ callbacks = 1
    /\ httpStatus = StatusOK


\* The hex HMACs of any input body under any input key.
HexMacs(keys, bodies) ==
    { HexEncodeToString(HmacSha512(k, b)) : k \in keys, b \in bodies }

\* C13: every VerifyHMAC(body, sig, key) call returns true exactly when sig
\* is the hex encoding of HMAC-SHA512 of body under key, so it returns false
\* for the signature made with another key or over another body, and it
\* never returns an error; the result is a function of the three arguments.
\* HMAC-SHA512 is taken to be collision-free.
C13_VerifyHMACExactMatch ==
    \A i \in DOMAIN verifyCalls :
        LET c == verifyCalls[i]
        IN  /\ c.err = FALSE
            /\ c.verified
                <=> c.signature = HexEncodeToString(HmacSha512(c.key, c.body))
            /\ c.signature \in HexMacs({"", "secret", "wrong"} \ {c.key},
                                       BodyInputs)
                => ~c.verified
            /\ c.signature \in HexMacs({c.key}, BodyInputs \ {c.body})
                => ~c.verified

\* A call with the right key and the signature of another body.
C13_Witness ==
    /\ verifyCalls # <<>>
    /\ verifyCalls[1].key = "secret"
    /\ verifyCalls[1].body.Stage = PrePlan
    /\ verifyCalls[1].signature \in
        HexMacs({"secret"}, {b \in BodyInputs : b.Stage = PostPlan})
    /\ ~verifyCalls[1].verified
    /\ ~verifyCalls[1].err


\* ------------------------------------------------------------------------
\* Properties of the stage routines
\* ------------------------------------------------------------------------

\* The stage routine created the run directory / failed to create it.
DirectoryCreated == mkdirs = <<FALSE>>
DirectoryFailed == mkdirs = <<TRUE>>

\* The stage routine has returned to the handler.
StageReturned == pc \in {"CheckStageError", "Callback", "Return", "done"}

\* The outcomes of the response the stage routine is building.
StageOutcomes == heap[base].Data.Relationships.Outcomes.Data.elems

\* C14: in each stage routine, once the run directory exists, every
\* data-collection step of the routine is attempted whichever earlier steps
\* failed; each step adds exactly one outcome, in step order, tagged error
\* when the step returned an error and none when it did not; the routine
\* returns its response with a nil error and the response is sent.
C14_FailureIsolation ==
    DirectoryCreated =>
        LET table == StageSteps(runTaskReq.Stage)
        IN  /\ Len(steps) <= Len(table)
            /\ Len(StageOutcomes) = Len(steps)
            /\ \A i \in DOMAIN steps :
                /\ steps[i].id = table[i].id
                /\ StageOutcomes[i].Attributes.OutcomeID = table[i].id
                /\ StageOutcomes[i].Attributes.Tags.Status =
                    << [Label |-> IF steps[i].err THEN "failed" ELSE "success",
                        Level |-> IF steps[i].err THEN TagLevelError
                                                  ELSE TagLevelNone] >>
            /\ StageReturned
                => /\ Len(steps) = Len(table)
                   /\ stageError = FALSE
                   /\ stageResponse = base
            /\ pc = "done" => callbacks = 1

C14_Witness ==
    /\ pc = "done"
    /\ DirectoryCreated
    /\ stageCalls = <<PostApply>>
    /\ Len(steps) = 8
    /\ steps[1].err
    /\ steps[3].err
    /\ ~steps[8].err
    /\ StageOutcomes[8].Attributes.Tags.Status[1].Level = TagLevelNone
    /\ callbacks = 1


\* C15: when creating the run directory fails, the stage routine attempts
\* none of its data-collection steps and returns at once a response with
\* status failed, whose single outcome reports the directory, together with
\* a non-nil error; the handler answers HTTP 500 and delivers no result.
C15_DirectoryFailureShortCircuits ==
    DirectoryFailed =>
        /\ steps = <<>>
        /\ StageReturned
        /\ stageError = TRUE
        /\ stageResponse = base
        /\ heap[base].Data.Attributes.Status = TaskFailed
        /\ Len(StageOutcomes) = 1
        /\ StageOutcomes[1].Attributes.OutcomeID = "create-directory"
        /\ StageOutcomes[1].Attributes.Tags.Status[1].Level = TagLevelError
        /\ callbacks = 0
        /\ pc \in {"Return", "done"} => httpStatus = StatusInternalServerError

C15_Witness ==
    /\ pc = "done"
    /\ DirectoryFailed
    /\ stageCalls = <<PreApply>>
    /\ steps = <<>>
    /\ stageError
    /\ heap[base].Data.Attributes.Status = TaskFailed
    /\ httpStatus = StatusInternalServerError


\* The handler is past reading and decoding and did not get a request out
\* of the body: io.ReadAll or json.Unmarshal failed.
BodyRejected ==
    /\ Serving
    /\ pc \notin {"ReadBody", "Unmarshal"}
    /\ ~BodyDecoded

\* C16: a request whose body cannot be read or cannot be decoded as JSON is
\* answered HTTP 400 at once and the handler does not try again; for such a
\* request the signature policy is not evaluated, VerifyHMAC is not called,
\* no stage routine runs, nothing is written and no callback is sent.
C16_UndecodableBodyBadRequest ==
    BodyRejected =>
        /\ pc \in {"Return", "done"}
        /\ httpStatus = StatusBadRequest
        /\ sigChecks = 0
        /\ verifyCalls = <<>>
        /\ NoStageWork
        /\ callbacks = 0

C16_Witness ==
    /\ pc = "done"
    /\ ~httpReq.body.json
    /\ reqBody = httpReq.body
    /\ config.HmacKey = "secret"
    /\ httpReq.signature = HexEncodeToString(HmacSha512("secret", httpReq.body))
    /\ sigChecks = 0
    /\ httpStatus = StatusBadRequest


\* ------------------------------------------------------------------------
\* Properties of the outcomes of a result
\* ------------------------------------------------------------------------

\* The url begins with http:// or https://.
Approved(url) == HasPrefix(url, HttpPrefix) \/ HasPrefix(url, HttpsPrefix)

\* The step is an AddOutcome call.
AddOutcomeStep == Len(addLog') = Len(addLog) + 1

\* C17: every AddOutcome call appends an outcome whose url is the url
\* argument itself, whether it begins with http://, https://, something
\* else or is empty, and a url that is not empty is serialized as given;
\* the call does not touch the top-level URL, which only WithUrl sets and
\* only from an argument that passes the prefix check.
C17_OutcomeUrlStoredAsGiven ==
    [][ AddOutcomeStep =>
          LET a == addLog'[Len(addLog')]
              n == Len(Outcomes')
              item == MarshalOutcome(Outcomes'[n])
          IN  /\ n = Len(Outcomes) + 1
              /\ Outcomes'[n].Attributes.URL = a.url
              /\ a.url # UrlEmpty => item.attributes.url = a.url
              /\ a.url = UrlEmpty => "url" \notin DOMAIN item.attributes
              /\ Attributes' = Attributes ]_vars

C17_Witness ==
    /\ last.op = "AddOutcome"
    /\ Len(Outcomes) = 3
    /\ Outcomes[1].Attributes.URL = UrlBare
    /\ Outcomes[2].Attributes.URL = UrlEmpty
    /\ Outcomes[3].Attributes.URL = UrlFtp
    /\ ~Approved(UrlBare)
    /\ ~Approved(UrlFtp)

\* C18 as stated: in every result the builder operations can reach, every
\* URL that is set (not empty), at the task level or at the outcome level,
\* begins with http:// or https://.
C18_EveryUrlApproved ==
    /\ Attributes.URL # UrlEmpty => Approved(Attributes.URL)
    /\ cb.Data.Attributes.URL # UrlEmpty => Approved(cb.Data.Attributes.URL)
    /\ \A i \in DOMAIN Outcomes :
          Outcomes[i].Attributes.URL # UrlEmpty
              => Approved(Outcomes[i].Attributes.URL)

\* C18 as amended: in every result the builder operations can reach, the
\* task-level URL, of a TaskResponse or of a CallbackBuilder, is empty or
\* begins with http:// or https://; the URL of an outcome is whatever its
\* AddOutcome call was given and need not begin with either.
C18_TaskUrlApproved ==
    /\ Attributes.URL # UrlEmpty => Approved(Attributes.URL)
    /\ cb.Data.Attributes.URL # UrlEmpty => Approved(cb.Data.Attributes.URL)
    /\ \A i \in DOMAIN Outcomes :
          Outcomes[i].Attributes.URL = addLog[i].url

C18_Witness ==
    /\ Attributes.URL = UrlHttps
    /\ cb.Data.Attributes.URL = UrlHttp
    /\ Len(Outcomes) >= 1
    /\ Outcomes[1].Attributes.URL = UrlFtp
    /\ ~Approved(Outcomes[1].Attributes.URL)

\* C19: every AddOutcome call appends an outcome of type
\* "task-result-outcomes" whose tags have the single category status, with
\* exactly one tag, carrying the label and level arguments; no call of any
\* operation changes the type or the tags of an outcome already in the list.
C19_SoleStatusTag ==
    [][ /\ AddOutcomeStep =>
              LET a == addLog'[Len(addLog')]
                  n == Len(Outcomes')
                  item == MarshalOutcome(Outcomes'[n])
              IN  /\ n = Len(Outcomes) + 1
                  /\ Outcomes'[n].Type = TypeTaskResultOutcomes
                  /\ DOMAIN Outcomes'[n].Attributes.Tags = {"Status"}
                  /\ Outcomes'[n].Attributes.Tags.Status =
                        << [Label |-> a.label, Level |-> a.level] >>
                  /\ item.type = "task-result-outcomes"
                  /\ DOMAIN item.attributes.tags = {"status"}
                  /\ Len(item.attributes.tags.status) = 1
        /\ \A i \in DOMAIN Outcomes :
              /\ i \in DOMAIN Outcomes'
              /\ Outcomes'[i].Type = Outcomes[i].Type
              /\ Outcomes'[i].Attributes.Tags = Outcomes[i].Attributes.Tags
      ]_vars

C19_Witness ==
    /\ last.op = "WithUrl"
    /\ lastSet.called
    /\ Len(Outcomes) = 2
    /\ Outcomes[1].Attributes.Tags.Status =
          << [Label |-> "", Level |-> TagLevelNone] >>
    /\ Outcomes[2].Attributes.Tags.Status =
          << [Label |-> "err", Level |-> TagLevelError] >>
    /\ Outcomes[1].Type = TypeTaskResultOutcomes


\* C20: AddOutcome has no failure mode: called with any strings and any tag
\* level on any result, it does not panic and appends exactly one outcome,
\* so the outcome list is as long as the number of calls made.
C20_AddOutcomeNeverFails ==
    /\ ~panicked
    /\ Len(Outcomes) = Len(addLog)


\* ------------------------------------------------------------------------
\* Properties of the serialized result
\* ------------------------------------------------------------------------

\* C21: the JSON of a result built through NewTaskResponse always has the
\* "relationships" field with an outcome array (not null, not omitted) of
\* the length of the outcome list, the empty list included; the top-level
\* message and url and an outcome's description, body and url are present
\* exactly when they are not empty; status and outcome-id are always there.
C21_SerializedShape ==
    LET doc == MarshalTaskResponse(Result).data
        items == doc.relationships.outcomes.data.items
    IN  /\ "relationships" \in DOMAIN doc
        /\ "outcomes" \in DOMAIN doc.relationships
        /\ ~doc.relationships.outcomes.data.null
        /\ Len(items) = Len(Outcomes)
        /\ "status" \in DOMAIN doc.attributes
        /\ doc.attributes.status = Attributes.Status
        /\ "message" \in DOMAIN doc.attributes <=> Attributes.Message # ""
        /\ "url" \in DOMAIN doc.attributes <=> Attributes.URL # UrlEmpty
        /\ \A i \in DOMAIN items :
              LET o == Outcomes[i].Attributes
                  j == items[i].attributes
              IN  /\ "outcome-id" \in DOMAIN j
                  /\ j["outcome-id"] = o.OutcomeID
                  /\ "description" \in DOMAIN j <=> o.Description # ""
                  /\ "body" \in DOMAIN j <=> o.Body # ""
                  /\ "url" \in DOMAIN j <=> o.URL # UrlEmpty

C21_Witness ==
    /\ addLog = <<>>
    /\ lastSet.called
    /\ Attributes.Status = TaskPassed
    /\ Attributes.Message = ""
    /\ Attributes.URL = UrlHttps
    /\ MarshalTaskResponse(Result).data.relationships.outcomes.data.items = <<>>


\* ------------------------------------------------------------------------
\* Properties of the request handler, continued
\* ------------------------------------------------------------------------

\* The signature policy let the request through.
PassedPolicy ==
    /\ PolicyReached
    /\ UnsignedNoKey \/ CorrectlySigned

\* C22: a decoded request is an endpoint validation exactly when its access
\* token is "test-token"; once such a request has passed the signature
\* policy the handler answers HTTP 200 and returns: no stage routine runs,
\* no directory is created and no callback is sent.  A request with another
\* token and a known stage is not answered this way: its stage routine runs.
C22_EndpointValidationShortcut ==
    /\ \A b \in BodyInputs :
          IsEndpointValidation(Unmarshal(b).req)
              <=> (b.json /\ b.AccessToken = "test-token")
    /\ (PassedPolicy /\ runTaskReq.AccessToken = "test-token")
        => /\ pc \in {"EndpointValidation", "Return", "done"}
           /\ pc \in {"Return", "done"} => httpStatus = StatusOK
           /\ NoStageWork
           /\ callbacks = 0
    /\ (PassedPolicy /\ runTaskReq.AccessToken # "test-token" /\ pc = "done"
            /\ runTaskReq.Stage \in {PrePlan, PostPlan, PreApply, PostApply})
        => /\ stageCalls = <<runTaskReq.Stage>>
           /\ Len(mkdirs) = 1

C22_Witness ==
    /\ pc = "done"
    /\ CorrectlySigned
    /\ BodyDecoded
    /\ runTaskReq.AccessToken = "test-token"
    /\ runTaskReq.Stage = PrePlan
    /\ httpStatus = StatusOK
    /\ NoStageWork
    /\ callbacks = 0


\* ------------------------------------------------------------------------
\* Properties of the run directory
\* ------------------------------------------------------------------------

\* The name is an ordinary directory name.
PlainName(name) == name \notin {"", ".", ".."}

\* C23: CreateRunTaskDirectoryStructure returns the path
\* ./<WorkspaceName>/<RunID>/<stageFolder> in its cleaned form (for plain
\* names the three segments in this order), where stageFolder is the stage
\* name behind 1_, 2_, 3_, 4_ for pre_plan, post_plan, pre_apply, post_apply
\* and the bare stage name otherwise; the request's TaskDirectory is that
\* returned path whether the directory was created or not, and no other
\* field of the request changes.
C23_RunDirectoryPath ==
    mkdirs # <<>> =>
        LET st == stageRequest.Stage
            folder == IF st = "pre_plan" THEN <<"1_", "pre_plan">>
                      ELSE IF st = "post_plan" THEN <<"2_", "post_plan">>
                      ELSE IF st = "pre_apply" THEN <<"3_", "pre_apply">>
                      ELSE IF st = "post_apply" THEN <<"4_", "post_apply">>
                      ELSE Segment(st)
            ws == stageRequest.WorkspaceName
            run == stageRequest.RunID
        IN  /\ runTaskPath = Join(<<Dot, Segment(ws), Segment(run), folder>>)
            /\ (PlainName(ws) /\ PlainName(run) /\ st # "")
                => runTaskPath = <<<<ws>>, <<run>>, folder>>
            /\ stageRequest.TaskDirectory = runTaskPath
            /\ stageRequest \in
                { [q EXCEPT !.TaskDirectory = runTaskPath] :
                    q \in DirectoryRequests }

\* The directory of a post_apply run could not be created.
C23_Witness ==
    /\ mkdirs = <<TRUE>>
    /\ stageRequest.WorkspaceName = "ws-1"
    /\ stageRequest.RunID = "run-1"
    /\ runTaskPath = <<<<"ws-1">>, <<"run-1">>, <<"4_", "post_apply">>>>
    /\ stageRequest.TaskDirectory = runTaskPath


\* ------------------------------------------------------------------------
\* Frame conditions of the result builder
\* ------------------------------------------------------------------------

\* C24: AddOutcome leaves status, message, top-level URL and every outcome
\* already in the list as they were; SetResult leaves the URL and the
\* outcome list as they were; WithUrl leaves status, message and the outcome
\* list as they were; IsPassed changes nothing.  So whatever is called, the
\* outcomes present before the call are the same, in the same places, after.
C24_FrameConditions ==
    [][ /\ last'.op = "AddOutcome"
            => /\ Attributes' = Attributes
               /\ \A i \in DOMAIN Outcomes : Outcomes'[i] = Outcomes[i]
        /\ last'.op = "SetResult"
            => /\ Attributes'.URL = Attributes.URL
               /\ Outcomes' = Outcomes
        /\ last'.op = "WithUrl"
            => /\ Attributes'.Status = Attributes.Status
               /\ Attributes'.Message = Attributes.Message
               /\ Outcomes' = Outcomes
        /\ last'.op = "IsPassed"
            => /\ heap' = heap
               /\ r' = r
        /\ Len(Outcomes') >= Len(Outcomes)
        /\ SubSeq(Outcomes', 1, Len(Outcomes)) = Outcomes ]_vars

C24_Witness ==
    /\ last.op = "IsPassed"
    /\ ~last.passed
    /\ Len(Outcomes) = 3
    /\ Outcomes[1].Attributes.OutcomeID = "o3"
    /\ lastSet.called
    /\ Attributes.Status = TaskRunning
    /\ Attributes.Message = "All good"
    /\ Attributes.URL = UrlHttp


\* ------------------------------------------------------------------------
\* Properties of concurrently handled requests
\* ------------------------------------------------------------------------

\* The result goroutine i returned holds what its own request produced.
OwnResult(i) ==
    LET g == goroutines[i]
        resp == heap[g.resp].Data
        outs == resp.Relationships.Outcomes.Data.elems
        table == StageSteps(g.request.Stage)
        msgs == StageMessages(g.request.Stage)
        failed == \E k \in DOMAIN g.steps : g.steps[k].err
    IN  /\ g.resp = g.ntr
        /\ \A k \in DOMAIN outs :
              outs[k].Attributes.URL = ReferenceURL(g.request)
        /\ IF g.mkdirs = <<TRUE>>
           THEN /\ g.err
                /\ Len(outs) = 1
                /\ outs[1].Attributes.OutcomeID = "create-directory"
                /\ resp.Attributes =
                      [Status |-> TaskFailed, Message |-> msgs.mkdirFailed,
                       URL |-> UrlEmpty]
           ELSE /\ ~g.err
                /\ Len(outs) = Len(table)
                /\ Len(g.steps) = Len(table)
                /\ \A k \in DOMAIN outs :
                      /\ outs[k].Attributes.OutcomeID = table[k].id
                      /\ outs[k].Attributes.Tags.Status[1].Level =
                            IF g.steps[k].err THEN TagLevelError
                                              ELSE TagLevelNone
                /\ resp.Attributes =
                      [Status |-> IF failed THEN TaskFailed ELSE TaskPassed,
                       Message |-> IF failed THEN msgs.failure
                                             ELSE msgs.success,
                       URL |-> ReferenceURL(g.request)]

\* C25: every call of a stage routine makes a result of its own, so however
\* the steps of concurrently handled requests interleave, no two requests
\* share a result and the result returned for a request holds exactly the
\* outcomes, status, message and URL its own steps produced; handling
\* requests never writes task.config.
C25_RequestScopedResult ==
    /\ [](\A i \in DOMAIN goroutines, j \in DOMAIN goroutines :
            (i # j /\ goroutines[i].ntr # NilPtr /\ goroutines[j].ntr # NilPtr)
                => goroutines[i].ntr # goroutines[j].ntr)
    /\ [](\A i \in DOMAIN goroutines :
            goroutines[i].pc = "returned" => OwnResult(i))
    /\ [][config' = config]_vars

\* Two requests whose steps alternated, one failing where the other did not.
C25_Witness ==
    /\ goroutines[1].pc = "returned"
    /\ goroutines[2].pc = "returned"
    /\ goroutines[1].ntr = 2
    /\ goroutines[2].ntr = 1
    /\ goroutines[1].mkdirs = <<FALSE>>
    /\ goroutines[2].mkdirs = <<FALSE>>
    /\ goroutines[1].steps[2].err
    /\ ~goroutines[2].steps[2].err
    /\ heap[goroutines[1].resp].Data.Attributes.Status = TaskFailed
    /\ heap[goroutines[2].resp].Data.Attributes.Status = TaskPassed


\* ------------------------------------------------------------------------
\* Properties of the stage routines, continued
\* ------------------------------------------------------------------------

\* The positions of the calls of an operation in the stage routine's trace.
CallsOf(op) == {i \in DOMAIN stageTrace : stageTrace[i] = op}

\* C26: on every path through each of the four stage routines SetResult is
\* called exactly once and after the last AddOutcome, and not before the
\* routine is done with its steps, so the returned result has status passed
\* or failed; when the run directory was created the status is passed
\* exactly when no outcome is tagged error, and the top-level URL is the
\* https reference URL of the run.
C26_ResultSetOnceAtEnd ==
    /\ (stageCalls # <<>> /\ ~StageReturned) => CallsOf("SetResult") = {}
    /\ (stageCalls # <<>> /\ StageReturned)
        => /\ Cardinality(CallsOf("SetResult")) = 1
           /\ \A i \in CallsOf("AddOutcome"), j \in CallsOf("SetResult") : i < j
           /\ CallsOf("AddOutcome") # {}
           /\ heap[stageResponse].Data.Attributes.Status
                \in {TaskPassed, TaskFailed}
           /\ DirectoryCreated
                => /\ heap[stageResponse].Data.Attributes.Status = TaskPassed
                        <=> \A k \in DOMAIN StageOutcomes :
                              StageOutcomes[k].Attributes.Tags.Status[1].Level
                                  # TagLevelError
                   /\ heap[stageResponse].Data.Attributes.URL =
                        ReferenceURL(runTaskReq)
                   /\ HasPrefix(heap[stageResponse].Data.Attributes.URL,
                                HttpsPrefix)

C26_Witness ==
    /\ pc = "done"
    /\ stageCalls = <<PreApply>>
    /\ DirectoryCreated
    /\ \A k \in DOMAIN steps : ~steps[k].err
    /\ Len(stageTrace) = 10
    /\ stageTrace[9] = "SetResult"
    /\ heap[stageResponse].Data.Attributes.Status = TaskPassed
    /\ HasPrefix(heap[stageResponse].Data.Attributes.URL, HttpsPrefix)


\* The handler is past the signature policy of the request it is serving.
PastPolicy ==
    pc \in {"EndpointValidation", "Dispatch", "StageEntry", "StageStep",
            "StageFinish", "CheckStageError", "Callback"}

\* A step that starts work for the request: the stage routine is called, the
\* run directory is created, a step (download included) runs, or the
\* callback is sent.
StartsStageWork ==
    \/ Len(stageCalls') > Len(stageCalls)
    \/ Len(mkdirs') > Len(mkdirs)
    \/ Len(steps') > Len(steps)
    \/ callbacks' > callbacks

KnownStage == runTaskReq.Stage \in {PrePlan, PostPlan, PreApply, PostApply}

\* C28: the callback is sent at most once per inbound request, and only for
\* a request that decoded, passed the signature policy, is not an endpoint
\* validation, names one of the four stages, and whose stage routine
\* returned a nil error; a request with an unknown stage is answered with
\* 400 and a stage routine returning an error with 500, both without a
\* callback.
C28_CallbackOnlyAfterStage ==
    /\ callbacks <= 1
    /\ callbacks = 1
        => /\ BodyDecoded
           /\ PassedPolicy
           /\ ~IsEndpointValidation(runTaskReq)
           /\ KnownStage
           /\ stageCalls = <<runTaskReq.Stage>>
           /\ StageReturned
           /\ ~stageError
    /\ (pc = "done" /\ BodyDecoded /\ PassedPolicy
          /\ ~IsEndpointValidation(runTaskReq) /\ ~KnownStage)
        => /\ httpStatus = StatusBadRequest
           /\ callbacks = 0
           /\ NoStageWork
    /\ stageError => callbacks = 0
    /\ (pc = "done" /\ stageError)
        => httpStatus = StatusInternalServerError

C28_Witness ==
    /\ pc = "done"
    /\ stageCalls = <<PrePlan>>
    /\ DirectoryFailed
    /\ stageError
    /\ httpStatus = StatusInternalServerError
    /\ callbacks = 0


\* ------------------------------------------------------------------------
\* The API client: run data and logs
\* ------------------------------------------------------------------------

\* The helper calls one behaviour makes at most.
MaxClientCalls == 3

\* What the file system holds at a path.
DirEntry == [kind |-> "dir"]
FileEntry(data) == [kind |-> "file", data |-> data]

\* The file system with data written to the file at path.
WriteFile(fs, path, data) ==
    [q \in DOMAIN fs \cup {path} |->
        IF q = path THEN FileEntry(data) ELSE fs[q]]

\* The text of a string inside a longer one: nothing for the empty string.
Text(str) == IF str = "" THEN <<>> ELSE <<str>>

\* What a response body or a file can hold: JSON or not, the
\* data.attributes.log-read-url of the JSON, and its indentation.
NoLogUrl == <<>>
LogReadUrl == HttpsPrefix \o <<"archivist.terraform.io", "/v1/object/", "log">>
JsonWithLogUrl == [json |-> TRUE, logReadUrl |-> LogReadUrl, indent |-> ""]
JsonWithoutLogUrl == [json |-> TRUE, logReadUrl |-> NoLogUrl, indent |-> ""]
NotJsonData == [json |-> FALSE, logReadUrl |-> NoLogUrl, indent |-> ""]
BodyData == {JsonWithLogUrl, JsonWithoutLogUrl, NotJsonData}

\* What the server does with a request: the connection fails, or it answers
\* with a status and a body.
ConnectionError == [err |-> TRUE, status |-> 0, body |-> NotJsonData]
HttpResponses ==
    {ConnectionError}
        \cup {[err |-> FALSE, status |-> StatusOK, body |-> b] : b \in BodyData}
        \cup {[err |-> FALSE, status |-> StatusNotFound, body |-> NotJsonData]}

\* What may go wrong when a file is written: os.Create fails, or the write
\* after it does.
FileFaults == {"none", "create", "write"}

\* c.httpClient.Do(req) with http.DefaultClient: the transport refuses a URL
\* whose scheme is neither http nor https before anything is sent.
HttpDo(gets, url, accessToken, resp) ==
    IF ~(HasPrefix(url, HttpPrefix) \/ HasPrefix(url, HttpsPrefix))
    THEN [gets |-> gets, err |-> TRUE]
    ELSE [gets |-> Append(gets, [url |-> url, token |-> accessToken]),
          err |-> resp.err]

\* func (c *Client) downloadFile(url, filePath, accessToken string) error
DownloadFile(fs, gets, url, filePath, accessToken, resp, fault) ==
    LET d == HttpDo(gets, url, accessToken, resp)
    IN  IF d.err
        THEN [files |-> fs, gets |-> d.gets,
              err |-> "failed to send request"]
        ELSE IF resp.status # StatusOK
        THEN [files |-> fs, gets |-> d.gets,
              err |-> "unexpected status code"]
        ELSE IF fault = "create"
        THEN [files |-> fs, gets |-> d.gets,
              err |-> "failed to create file"]
        ELSE IF fault = "write"
        THEN [files |-> WriteFile(fs, filePath, NotJsonData),
              gets |-> d.gets, err |-> "failed to write file"]
        ELSE [files |-> WriteFile(fs, filePath, resp.body),
              gets |-> d.gets, err |-> ""]

\* func (c *Client) makeAPIRequest(method, url, accessToken string, body []byte)
MakeAPIRequest(gets, url, accessToken, resp) ==
    LET d == HttpDo(gets, url, accessToken, resp)
    IN  IF d.err
        THEN [gets |-> d.gets, body |-> NotJsonData,
              err |-> "request failed"]
        ELSE IF resp.status # StatusOK
        THEN [gets |-> d.gets, body |-> NotJsonData,
              err |-> "unexpected status code"]
        ELSE [gets |-> d.gets, body |-> resp.body, err |-> ""]

\* func (c *Client) savePrettyJSON(data []byte, filePath string) error
SavePrettyJSON(fs, data, filePath, fault) ==
    IF ~data.json
    THEN [files |-> fs, err |-> "failed to pretty print JSON"]
    ELSE IF fault = "create"
    THEN [files |-> fs, err |-> "failed to create file"]
    ELSE IF fault = "write"
    THEN [files |-> WriteFile(fs, filePath, NotJsonData),
          err |-> "failed to write file"]
    ELSE [files |-> WriteFile(fs, filePath, [data EXCEPT !.indent = "  "]),
          err |-> ""]

\* func (c *Client) GetHostname(request api.TaskRequest) string: the callback
\* URL up to its first "/api/".
GetHostname(request) ==
    LET url == request.TaskResultCallbackURL
        at == {i \in DOMAIN url : url[i] = "/api/"}
    IN  IF at = {}
        THEN <<>>
        ELSE SubSeq(url, 1, (CHOOSE i \in at : \A j \in at : i <= j) - 1)

\* func (c *Client) GetDataFromAPI(outputDirectory string, dataType string,
\* request api.TaskRequest) error, tok being c.GetPermissiveToken().
GetDataFromAPI(fs, gets, outputDirectory, dataType, request, tok, resp, fault) ==
    LET hostname == GetHostname(request)
        apiPath == IF dataType = "run" THEN "" ELSE dataType
        filePath == Join(outputDirectory \o << <<dataType, "_api.json">> >>)
        url == hostname \o <<"/api/v2/runs/">> \o Text(request.RunID)
                   \o <<"/">> \o Text(apiPath)
        a == MakeAPIRequest(gets, url, tok, resp)
        w == SavePrettyJSON(fs, a.body, filePath, fault)
    IN  IF tok = ""
        THEN [files |-> fs, gets |-> gets, err |-> ""]
        ELSE IF a.err # ""
        THEN [files |-> fs, gets |-> a.gets, err |-> "failed to get data"]
        ELSE [files |-> w.files, gets |-> a.gets, err |-> w.err]

\* func (c *Client) extractLogURL(apiFilePath string) (string, error);
\* os.ReadFile fails when there is no such file, and may fail otherwise.
ExtractLogURL(fs, apiFilePath, readFails) ==
    IF apiFilePath \notin DOMAIN fs \/ fs[apiFilePath].kind # "file"
       \/ readFails
    THEN [url |-> <<>>, err |-> ""]
    ELSE IF ~fs[apiFilePath].data.json
    THEN [url |-> <<>>, err |-> "failed to parse API JSON"]
    ELSE IF fs[apiFilePath].data.logReadUrl = NoLogUrl
    THEN [url |-> <<>>, err |-> "log-read-url not found in API response"]
    ELSE [url |-> fs[apiFilePath].data.logReadUrl, err |-> ""]

\* func (c *Client) GetLogs(outputDirectory, logType string,
\* request api.TaskRequest) error
GetLogs(fs, gets, outputDirectory, logType, resp, fault, readFails) ==
    LET apiFileName == <<logType, "_api.json">>
        logFileName == <<logType, "_logs.txt">>
        e == ExtractLogURL(fs, Join(outputDirectory \o <<apiFileName>>),
                           readFails)
        logFilePath == Join(outputDirectory \o <<logFileName>>)
    IN  IF e.err # ""
        THEN [files |-> fs, gets |-> gets, err |-> e.err]
        ELSE DownloadFile(fs, gets, e.url, logFilePath, "", resp, fault)

\* The entry of a step in the table of its stage.
StepOf(stage, id) ==
    LET table == StageSteps(stage)
    IN  table[CHOOSE i \in DOMAIN table : table[i].id = id]

\* What a step adds to the result: err == nil is a success outcome, an
\* error a failed one with the error as its body.
StepOutcome(h, ntr, request, id, err) ==
    LET step == StepOf(request.Stage, id)
    IN  IF err = ""
        THEN AddOutcome(h, ntr, id, step.ok, "", ReferenceURL(request),
                        "success", TagLevelNone)
        ELSE AddOutcome(h, ntr, id, step.failed, err, ReferenceURL(request),
                        "failed", TagLevelError)

\* post_plan reads the plan and its logs, post_apply the apply and its logs.
LogTypeOf(stage) == IF stage = PostPlan THEN "plan" ELSE "apply"

\* The callback URLs a request may carry.
CallbackUrlInputs ==
    { HttpsPrefix \o <<"app.terraform.io", "/api/", "v2/task-results/1">>,
      HttpsPrefix \o <<"app.terraform.io", "/task-results/1">>,
      <<>> }

\* The requests of the stages that read logs.
LogsRequests ==
    { [AccessToken |-> "tfc-token", Stage |-> st, RunID |-> "run-1",
       WorkspaceName |-> "ws-1",
       TaskDirectory |-> Join(<<Dot, <<"ws-1">>, <<"run-1">>, StageFolder(st)>>),
       TaskResultCallbackURL |-> url] :
        st \in {PostPlan, PostApply}, url \in CallbackUrlInputs }

\* A stage routine has created its directory and its result and is about to
\* fetch data; the token may be set in the environment or not.
InitLogs ==
    /\ BuilderInit
    /\ config = [HmacKey |-> ""]
    /\ pc = "StageStep"
    /\ httpReq = NoRequest
    /\ reqBody = NotJson
    /\ runTaskReq = ZeroTaskRequest
    /\ stageError = FALSE
    /\ httpStatus = 0
    /\ verifyCalls = <<>>
    /\ stageCalls = <<>>
    /\ callbacks = 0
    /\ sigChecks = 0
    /\ mkdirs = <<FALSE>>
    /\ steps = <<>>
    /\ stageResponse = NilPtr
    /\ stageRequest \in LogsRequests
    /\ runTaskPath = stageRequest.TaskDirectory
    /\ stageTrace = <<"NewTaskResponse">>
    /\ goroutines = <<>>
    /\ files = (runTaskPath :> DirEntry)
    /\ token \in {"", "api-token"}
    /\ httpGets = <<>>
    /\ returned = <<>>

\* err = tfcClient.GetDataFromAPI(runTaskPath, "plan", request) and the
\* outcome added for it.
StepGetDataFromAPI(resp, fault) ==
    LET dataType == LogTypeOf(stageRequest.Stage)
        id == IF dataType = "plan" THEN "download-plan" ELSE "download-apply"
        res == GetDataFromAPI(files, httpGets, runTaskPath, dataType,
                              stageRequest, token, resp, fault)
        a == StepOutcome(heap, base, stageRequest, id, res.err)
    IN  /\ Len(returned) < MaxClientCalls
        /\ files' = res.files
        /\ httpGets' = res.gets
        /\ returned' = Append(returned,
                              [op |-> "GetDataFromAPI", before |-> files,
                               after |-> res.files,
                               gets |-> Len(res.gets) - Len(httpGets),
                               err |-> res.err])
        /\ heap' = a.heap
        /\ steps' = Append(steps, [id |-> id, err |-> res.err # ""])
        /\ stageTrace' = Append(stageTrace, "AddOutcome")
        /\ UNCHANGED <<token, mkdirs, stageResponse, stageRequest, runTaskPath,
                       goroutines>>
        /\ UNCHANGED <<config, pc, httpReq, reqBody, runTaskReq, stageError,
                       httpStatus, verifyCalls, stageCalls, callbacks,
                       sigChecks, base, r, cb, last, addLog, lastSet,
                       panicked>>

\* err = tfcClient.GetLogs(runTaskPath, "plan", request) and the outcome
\* added for it.
StepGetLogs(resp, fault, readFails) ==
    LET logType == LogTypeOf(stageRequest.Stage)
        id == IF logType = "plan" THEN "download-plan-logs"
              ELSE "download-apply-logs"
        res == GetLogs(files, httpGets, runTaskPath, logType, resp, fault,
                       readFails)
        a == StepOutcome(heap, base, stageRequest, id, res.err)
    IN  /\ Len(returned) < MaxClientCalls
        /\ files' = res.files
        /\ httpGets' = res.gets
        /\ returned' = Append(returned,
                              [op |-> "GetLogs", before |-> files,
                               after |-> res.files,
                               gets |-> Len(res.gets) - Len(httpGets),
                               err |-> res.err])
        /\ heap' = a.heap
        /\ steps' = Append(steps, [id |-> id, err |-> res.err # ""])
        /\ stageTrace' = Append(stageTrace, "AddOutcome")
        /\ UNCHANGED <<token, mkdirs, stageResponse, stageRequest, runTaskPath,
                       goroutines>>
        /\ UNCHANGED <<config, pc, httpReq, reqBody, runTaskReq, stageError,
                       httpStatus, verifyCalls, stageCalls, callbacks,
                       sigChecks, base, r, cb, last, addLog, lastSet,
                       panicked>>

NextLogs ==
    \/ \E resp \in HttpResponses, fault \in FileFaults :
          StepGetDataFromAPI(resp, fault)
    \/ \E resp \in HttpResponses, fault \in FileFaults, readFails \in BOOLEAN :
          StepGetLogs(resp, fault, readFails)

SpecLogs == InitLogs /\ [][NextLogs]_vars

\* The files of the logs step of the request in hand.
ApiFilePath ==
    Join(runTaskPath \o << <<LogTypeOf(stageRequest.Stage), "_api.json">> >>)
LogFilePath ==
    Join(runTaskPath \o << <<LogTypeOf(stageRequest.Stage), "_logs.txt">> >>)

\* The k-th helper call was GetLogs with no <logType>_api.json to read.
GetLogsWithoutApiFile(k) ==
    /\ returned[k].op = "GetLogs"
    /\ ApiFilePath \notin DOMAIN returned[k].before

\* C29: GetLogs skips the step when the <logType>_api.json file does not
\* exist: it returns nil, sends no request and writes no log file, and the
\* stage adds a success outcome for the logs step.
C29_GetLogsSkipsWithoutApiFile ==
    \A k \in DOMAIN returned :
        GetLogsWithoutApiFile(k)
            => /\ returned[k].err = ""
               /\ returned[k].gets = 0
               /\ returned[k].after = returned[k].before
               /\ LogFilePath \notin DOMAIN returned[k].after
               /\ ~steps[k].err
               /\ Outcomes[k].Attributes.Tags.Status[1].Label
                    = "success"

\* GetDataFromAPI was skipped for lack of a token, and GetLogs after it
\* returned the error of a request that could not be sent.
GetLogsFailedWithoutApiFile ==
    /\ token = ""
    /\ Len(returned) = 2
    /\ returned[1].op = "GetDataFromAPI"
    /\ returned[1].err = ""
    /\ GetLogsWithoutApiFile(2)
    /\ returned[2].err = "failed to send request"
    /\ returned[2].gets = 0
    /\ LogFilePath \notin DOMAIN files
    /\ steps[2].err


\* ------------------------------------------------------------------------
\* The file manager: extracting a configuration version
\* ------------------------------------------------------------------------

\* The entries an archive holds at most.
MaxEntries == 2

\* filepath.Clean of a path given by its segments.
Clean(path) == CleanFrom(path, 1, <<>>)

\* filepath.Dir of a clean path.
Dir(path) ==
    IF Len(path) <= 1 THEN <<Dot>> ELSE SubSeq(path, 1, Len(path) - 1)

\* filepath.IsAbs: the paths here are relative unless they start at the root.
Root == <<"/">>
IsAbs(path) == path # <<>> /\ path[1] = Root

\* filepath.Rel(basepath, targpath) for relative paths: both are cleaned, the
\* elements they share at their start are dropped, one ".." stands for each
\* element left of the base, and what is left of the target follows; a base
\* whose first element left is ".." gives an error.
Rel(basepath, targpath) ==
    LET cleanBase == Clean(basepath)
        cleanTarg == Clean(targpath)
        b == IF cleanBase = <<Dot>> THEN <<>> ELSE cleanBase
        shared == {k \in 0..Len(b) :
                      /\ k <= Len(cleanTarg)
                      /\ \A j \in 1..k : b[j] = cleanTarg[j]}
        n == CHOOSE k \in shared : \A m \in shared : m <= k
        baseLeft == SubSeq(b, n + 1, Len(b))
        targLeft == SubSeq(cleanTarg, n + 1, Len(cleanTarg))
    IN  IF cleanTarg = cleanBase
        THEN [rel |-> <<Dot>>, err |-> FALSE]
        ELSE IF baseLeft # <<>> /\ baseLeft[1] = DotDot
        THEN [rel |-> <<>>, err |-> TRUE]
        ELSE [rel |-> [k \in 1..Len(baseLeft) |-> DotDot] \o targLeft,
              err |-> FALSE]

\* isValidPath accepting every path.
IsValidPathAlways(targetPath, baseDir) == TRUE

\* func (fm *FileManager) isValidPath(targetPath, baseDir string) bool;
\* strings.HasPrefix(rel, "..") looks at the first characters of rel, which
\* are the first characters of its first element.
IsValidPath(targetPath, baseDir) ==
    LET cleanTarget == Clean(targetPath)
        cleanBase == Clean(baseDir)
        r0 == Rel(cleanBase, cleanTarget)
    IN  /\ ~r0.err
        /\ ~IsAbs(r0.rel)
        /\ ~HasPrefix(r0.rel[1], DotDot)

\* A path of "." and ".." elements only: a directory that is always there.
Upward(path) == \A k \in DOMAIN path : path[k] \in {Dot, DotDot}

\* os.MkdirAll(path, perm): the directories of the path that are missing
\* are created; a file in the way is an error.
MkdirAll(fs, path) ==
    LET dirs == {SubSeq(path, 1, k) : k \in 1..Len(path)}
        missing == {d \in dirs : d \notin DOMAIN fs /\ ~Upward(d)}
    IN  IF \E d \in dirs : d \in DOMAIN fs /\ fs[d].kind = "file"
        THEN [files |-> fs, err |-> TRUE]
        ELSE [files |-> [q \in DOMAIN fs \cup missing |->
                            IF q \in DOMAIN fs THEN fs[q] ELSE DirEntry],
              err |-> FALSE]

\* func (fm *FileManager) extractFile(tarReader, targetPath, header) error
ExtractFile(fs, targetPath, header, fault) ==
    LET m == MkdirAll(fs, Dir(targetPath))
    IN  IF m.err \/ fault = "mkdir"
        THEN [files |-> fs,
              err |-> "failed to create parent directory"]
        ELSE IF fault = "create"
                \/ (targetPath \in DOMAIN m.files
                      /\ m.files[targetPath].kind = "dir")
                \/ Upward(targetPath)
        THEN [files |-> m.files, err |-> "failed to create file"]
        ELSE IF fault = "write"
        THEN [files |-> WriteFile(m.files, targetPath, NotJsonData),
              err |-> "failed to write file"]
        ELSE [files |-> WriteFile(m.files, targetPath, header.Name),
              err |-> ""]

\* The loop of ExtractTarGz from the i-th entry on; the fault, if any,
\* strikes at the entry failAt.
RECURSIVE ExtractEntries(_, _, _, _, _, _)
ExtractEntries(fs, entries, i, targetDir, failAt, fault) ==
    IF i > Len(entries)
    THEN [files |-> fs, err |-> ""]
    ELSE IF failAt = i /\ fault = "header"
    THEN [files |-> fs, err |-> "failed to read tar header"]
    ELSE
    LET header == entries[i]
        here == IF failAt = i THEN fault ELSE "none"
        targetPath == Join(targetDir \o header.Name)
        m == MkdirAll(fs, targetPath)
        e == ExtractFile(fs, targetPath, header, here)
    IN  IF ~IsValidPath(targetPath, targetDir)
        THEN [files |-> fs, err |-> "invalid file path"]
        ELSE IF header.Typeflag = "dir"
        THEN IF m.err \/ here = "mkdir"
             THEN [files |-> fs, err |-> "failed to create directory"]
             ELSE ExtractEntries(m.files, entries, i + 1, targetDir,
                                 failAt, fault)
        ELSE IF header.Typeflag = "reg"
        THEN IF e.err # ""
             THEN e
             ELSE ExtractEntries(e.files, entries, i + 1, targetDir,
                                 failAt, fault)
        ELSE ExtractEntries(fs, entries, i + 1, targetDir, failAt, fault)

\* func (fm *FileManager) ExtractTarGz(archiveFile, targetDir, id string) error;
\* a fault at entry 0 strikes before the first entry is read.
ExtractTarGz(fs, archiveFile, targetDir, failAt, fault) ==
    LET m == MkdirAll(fs, targetDir)
    IN  IF m.err \/ (failAt = 0 /\ fault = "mkdir")
        THEN [files |-> fs, err |-> "failed to create directory"]
        ELSE IF archiveFile \notin DOMAIN m.files
                \/ m.files[archiveFile].kind # "file"
                \/ (failAt = 0 /\ fault = "create")
        THEN [files |-> m.files, err |-> "failed to open file"]
        ELSE IF ~m.files[archiveFile].data.gzip
        THEN [files |-> m.files, err |-> "failed to create gzip reader"]
        ELSE ExtractEntries(m.files, m.files[archiveFile].data.entries, 1,
                            targetDir, failAt, fault)

\* func (c *Client) DownloadConfigurationVersion(outputDirectory string,
\* request api.TaskRequest, extractor ArchiveExtractor) error, with what the
\* extractor did when it was called; faults names the fault of the download
\* and the fault of the extraction.
NotExtracted == [called |-> FALSE]
DownloadConfigurationVersion(fs, gets, outputDirectory, request, resp, faults) ==
    LET id == request.ConfigurationVersionID
        downloadFault == faults.download
        failAt == faults.at
        fault == faults.kind
        cvFolder == Join(outputDirectory \o <<Segment(id)>>)
        cvFile == Join(outputDirectory \o << Segment(id) \o <<".tar.gz">> >>)
        d == DownloadFile(fs, gets, request.ConfigurationVersionDownloadURL,
                          cvFile, request.AccessToken, resp, downloadFault)
        e == ExtractTarGz(d.files, cvFile, cvFolder, failAt, fault)
    IN  IF d.err # ""
        THEN [files |-> d.files, gets |-> d.gets,
              err |-> "failed to download configuration version",
              extract |-> NotExtracted]
        ELSE [files |-> e.files, gets |-> d.gets,
              err |-> IF e.err # "" THEN "failed to extract tar.gz" ELSE "",
              extract |-> [called |-> TRUE, archiveFile |-> cvFile,
                           targetDir |-> cvFolder, before |-> d.files,
                           after |-> e.files, err |-> e.err,
                           failAt |-> failAt, fault |-> fault]]

\* The names an archive entry may carry: plain and nested names, names that
\* climb out of the directory they are joined to, one that climbs out and
\* comes back, one that only looks like "..", and one written from the root.
EntryNames ==
    { << <<"main.tf">> >>,
      << <<"modules">>, <<"main.tf">> >>,
      << DotDot, <<"evil">> >>,
      << <<"modules">>, DotDot, DotDot, DotDot, <<"evil">> >>,
      << DotDot, <<"cv-1">>, <<"main.tf">> >>,
      << <<"..", "cfg">> >>,
      << <<>>, <<"etc">> >> }

\* Every name as a regular file, some as a directory, one as a symlink.
EntryInputs ==
    {[Name |-> n, Typeflag |-> "reg"] : n \in EntryNames}
        \cup {[Name |-> n, Typeflag |-> "dir"] :
                 n \in { << <<"modules">> >>, << <<"main.tf">> >>,
                         << DotDot, <<"evil">> >> }}
        \cup {[Name |-> << DotDot, <<"evil">> >>, Typeflag |-> "symlink"]}

RECURSIVE SeqsUpTo(_, _)
SeqsUpTo(S, n) ==
    IF n = 0 THEN {<<>>}
    ELSE LET shorter == SeqsUpTo(S, n - 1)
         IN  shorter \cup {Append(q, x) : q \in shorter, x \in S}

\* What the download URL may answer with: an archive, or what is no archive.
ArchiveResponses ==
    {ConnectionError,
     [err |-> FALSE, status |-> StatusNotFound, body |-> NotJsonData],
     [err |-> FALSE, status |-> StatusOK,
      body |-> [gzip |-> FALSE, entries |-> <<>>]]}
        \cup {[err |-> FALSE, status |-> StatusOK,
               body |-> [gzip |-> TRUE, entries |-> es]] :
                  es \in SeqsUpTo(EntryInputs, MaxEntries)}

\* Where a fault may strike an extraction, and which.
ExtractFaults ==
    {[at |-> 0, kind |-> f] : f \in {"none", "mkdir", "create"}}
        \cup {[at |-> k, kind |-> f] :
                k \in 1..MaxEntries,
                f \in {"header", "mkdir", "create", "write"}}

\* The requests whose configuration version is downloaded.
ExtractRequests ==
    { [AccessToken |-> "tfc-token", Stage |-> PrePlan, RunID |-> "run-1",
       WorkspaceName |-> "ws-1",
       TaskDirectory |-> Join(<<Dot, <<"ws-1">>, <<"run-1">>,
                                StageFolder(PrePlan)>>),
       ConfigurationVersionID |-> id,
       ConfigurationVersionDownloadURL |->
           HttpsPrefix \o <<"archivist.terraform.io", "/v1/object/", "cv">>] :
        id \in {"cv-1", "cv-2"} }

\* A stage routine has created its directory and its result and is about to
\* download the configuration version.
InitExtract ==
    /\ BuilderInit
    /\ config = [HmacKey |-> ""]
    /\ pc = "StageStep"
    /\ httpReq = NoRequest
    /\ reqBody = NotJson
    /\ runTaskReq = ZeroTaskRequest
    /\ stageError = FALSE
    /\ httpStatus = 0
    /\ verifyCalls = <<>>
    /\ stageCalls = <<>>
    /\ callbacks = 0
    /\ sigChecks = 0
    /\ mkdirs = <<FALSE>>
    /\ steps = <<>>
    /\ stageResponse = NilPtr
    /\ stageRequest \in ExtractRequests
    /\ runTaskPath = stageRequest.TaskDirectory
    /\ stageTrace = <<"NewTaskResponse">>
    /\ goroutines = <<>>
    /\ files = [q \in {SubSeq(runTaskPath, 1, k) : k \in 1..Len(runTaskPath)}
                  |-> DirEntry]
    /\ token = ""
    /\ httpGets = <<>>
    /\ returned = <<>>

\* err = tfcClient.DownloadConfigurationVersion(runTaskPath, request,
\* fileManager) and the outcome added for it; a stage routine calls it once.
StepDownloadConfigurationVersion(resp, downloadFault, x) ==
    LET id == "download-configuration-version"
        res == DownloadConfigurationVersion(files, httpGets, runTaskPath,
                                            stageRequest, resp,
                                            [download |-> downloadFault,
                                             at |-> x.at, kind |-> x.kind])
        a == StepOutcome(heap, base, stageRequest, id, res.err)
    IN  /\ returned = <<>>
        /\ files' = res.files
        /\ httpGets' = res.gets
        /\ returned' = Append(returned,
                              [op |-> "DownloadConfigurationVersion",
                               before |-> files, after |-> res.files,
                               gets |-> Len(res.gets) - Len(httpGets),
                               err |-> res.err, extract |-> res.extract])
        /\ heap' = a.heap
        /\ steps' = Append(steps, [id |-> id, err |-> res.err # ""])
        /\ stageTrace' = Append(stageTrace, "AddOutcome")
        /\ UNCHANGED <<token, mkdirs, stageResponse, stageRequest, runTaskPath,
                       goroutines>>
        /\ UNCHANGED <<config, pc, httpReq, reqBody, runTaskReq, stageError,
                       httpStatus, verifyCalls, stageCalls, callbacks,
                       sigChecks, base, r, cb, last, addLog, lastSet,
                       panicked>>

\* The one call of a stage routine, with whatever the server answers and
\* whatever fault strikes.
NextExtract ==
    /\ returned = <<>>
    /\ \E resp \in ArchiveResponses, downloadFault \in FileFaults,
          x \in ExtractFaults :
           StepDownloadConfigurationVersion(resp, downloadFault, x)

SpecExtract == InitExtract /\ [][NextExtract]_vars


\* A clean path is inside a directory when the directory's elements are its
\* first elements.
Inside(path, dir) == HasPrefix(path, dir)

\* The paths an operation created or wrote to.
Touched(before, after) ==
    {q \in DOMAIN after : q \notin DOMAIN before \/ after[q] # before[q]}

\* The entries of the archive an extraction read.
EntriesOf(x) == x.before[x.archiveFile].data.entries

\* The entries whose joined and cleaned path is not inside the target
\* directory.
Escaping(x) ==
    {k \in DOMAIN EntriesOf(x) :
        ~Inside(Clean(x.targetDir \o EntriesOf(x)[k].Name), x.targetDir)}

\* The extraction opened its archive and came to read its entries.
ReadsEntries(x) ==
    /\ x.before[x.archiveFile].data.gzip
    /\ ~MkdirAll(x.before, x.targetDir).err
    /\ ~(x.failAt = 0 /\ x.fault # "none")

\* C30: ExtractTarGz creates no file or directory outside the target
\* directory: for every entry whose joined and cleaned path is not inside
\* the target directory isValidPath is false, and an extraction that reads
\* the header of the first such entry stops there with an "invalid file
\* path" error (unless it failed on an entry before it), nothing being
\* written for that entry or any entry after it.
C30_ExtractionStaysInside ==
    \A k \in DOMAIN returned :
        (returned[k].op = "DownloadConfigurationVersion"
            /\ returned[k].extract.called)
        => LET x == returned[k].extract
               first == CHOOSE e \in Escaping(x) :
                            \A o \in Escaping(x) : e <= o
               upTo == ExtractEntries(MkdirAll(x.before, x.targetDir).files,
                                      SubSeq(EntriesOf(x), 1, first - 1), 1,
                                      x.targetDir, x.failAt, x.fault)
           IN  /\ \A q \in Touched(x.before, x.after) :
                     Inside(q, x.targetDir)
               /\ ReadsEntries(x) => \A e \in Escaping(x) :
                     ~IsValidPath(Join(x.targetDir \o EntriesOf(x)[e].Name),
                                  x.targetDir)
               /\ (ReadsEntries(x) /\ Escaping(x) # {})
                    => /\ x.err # ""
                       /\ x.after = upTo.files
                       /\ (upTo.err = ""
                             /\ ~(x.fault = "header" /\ x.failAt = first))
                            => x.err = "invalid file path"

\* An archive with a regular file and then an entry that climbs out: the
\* file was extracted, the extraction stopped at the second entry.
C30_Witness ==
    /\ Len(returned) = 1
    /\ returned[1].extract.called
    /\ returned[1].extract.err = "invalid file path"
    /\ Len(EntriesOf(returned[1].extract)) = 2
    /\ Escaping(returned[1].extract) = {2}
    /\ EntriesOf(returned[1].extract)[1].Typeflag = "reg"
    /\ \E q \in Touched(returned[1].extract.before,
                        returned[1].extract.after) :
          returned[1].extract.after[q].kind = "file"
    /\ steps[1].err

====
